---- MODULE Spec2Model ----
(***************************************************************************)
(* State-machine model of the cryptowatch real-time market-data client:    *)
(*   KrakenWebSocketService (src/src/services/krakenWebSocket.ts),         *)
(*   SubscriptionManager    (src/unnamed/part_000),                        *)
(*   useOrderBook           (src/unnamed/part_007).                        *)
(* One action per public operation, timer callback or transport event.     *)
(* Three specifications share the variables:                               *)
(*   Spec      the connection service (connect, reconnect, send, acks),    *)
(*   SpecMux   the subscription manager and its throttle over the service, *)
(*   SpecBook  the order book fed with snapshot and delta frames.          *)
(***************************************************************************)
EXTENDS Integers, Sequences, FiniteSets, TLC

\* ---------------------------------------------------------------- bounds
MaxSockets == 2        \* transport objects alive at the same time
MaxWaiters == 1        \* connect() callers polling an in-flight attempt
MaxInflight == 1       \* status frames in flight from the exchange
MaxHandlers == 2       \* handlers registered per channel
MaxCount == 2          \* subscriber count of a key in the SubscriptionManager
MaxPayload == 2        \* distinct payloads of data frames
MaxNow == 800          \* the clock stops here (ms)
TickStep == 100        \* granularity of the clock (ms)
FramesHorizon == 100   \* the clock of SpecFrames runs this long (ms)
MaxFrameLevels == 2    \* price levels carried by one book frame
MaxCandles == 4        \* distinct open times of the candles of a chart

\* ------------------------------------------------------ program constants
maxReconnectAttempts == 5
reconnectDelay == 2000
DefaultBaseThrottle == 100
DefaultMaxThrottle == 500
DefaultDepth == 10
ManagerDepth == 25
DefaultInterval == 1
MinBaseThrottle == 50
MinMaxThrottle == 100

\* who holds the promise of a connect attempt: an outside caller of connect()
\* or forceReconnect(), or handleReconnect, whose continuation replays the bindings
Kinds == {"user", "reconnect"}
Callbacks == {"cb1", "cb2"}
Keys == {<<"book", "ETH/USD">>, <<"ticker", "XBT/USD">>}
\* the key the hooks of the connection-service specification subscribe directly
SvcKeys == {k \in Keys : k[1] = "book"}
\* the key the consumers of the SubscriptionManager specification share
MuxKeys == {k \in Keys : k[1] = "ticker"}
\* two keys of one channel, for the routing of inbound frames
RouteKeys == {<<"ticker", "XBT/USD">>, <<"ticker", "ETH/USD">>}
Channels == {"book", "ohlc", "ticker", "trade"}
Payloads == 1..MaxPayload

\* channel id the exchange assigns to a (channel, pair) subscription
chanId(k) == IF k = <<"book", "ETH/USD">> THEN 1 ELSE IF k = <<"ticker", "XBT/USD">> THEN 2 ELSE 3

VARIABLES
  \* KrakenWebSocketService
  socket,                 \* this.socket: NULL or the WebSocket object
  orphans,                \* bag of WebSocket objects the service no longer references
                          \* but that are still closing or whose timeout is pending
  connectionState,
  reconnectAttempts,
  reconnectTimeoutId,     \* "null" or "set" (a fired timer leaves it set)
  reconnectTimerPending,  \* the reconnect timer is armed
  heartbeatInterval,      \* TRUE when the ping interval is running
  subscriptions,          \* Map key -> channelID, in insertion order
  messageHandlers,        \* channel -> list of registered handlers
  waiters,                \* connect() callers in the 100 ms polling loop, per kind
  \* the exchange and the wire
  upstream,               \* keys subscribed at the exchange on the latest session
  inbox,                  \* status frames in flight to the client on this.socket
  \* SubscriptionManager
  activeSubscriptions, subscriptionCounts, lastUpdateTime,
  pendingUpdates, throttleTimers, baseThrottleInterval, maxThrottleInterval,
  now,                    \* Date.now()
  \* useOrderBook
  orderBook,
  \* useOHLC
  candles,                \* the candle list of the chart, by open time
  \* what the last step did
  tx,                     \* frames transmitted on the transport by the step
  settle,                 \* connect() promises settled by the step
  delay,                  \* delay (ms) of the reconnect timer the step armed, 0 when none
  delivered,              \* callback invocations made by the step
  ret,                    \* value returned by the operation of the step
  arg,                    \* the argument of the operation of the step
  op                      \* the operation, timer callback or event handler that ran

svcVars == <<socket, orphans, connectionState, reconnectAttempts, reconnectTimeoutId,
             reconnectTimerPending, heartbeatInterval, subscriptions, waiters>>
wireVars == <<upstream, inbox>>
muxVars == <<activeSubscriptions, subscriptionCounts, lastUpdateTime, pendingUpdates,
             throttleTimers, baseThrottleInterval, maxThrottleInterval>>
bookVars == <<orderBook, candles>>
obsVars == <<tx, settle, delay, delivered, ret, arg, op>>
vars == <<svcVars, wireVars, muxVars, bookVars, obsVars, messageHandlers, now>>

\* ---------------------------------------------------------------- helpers
Range(q) == {q[i] : i \in 1..Len(q)}
Has(f, k) == k \in DOMAIN f
Get(f, k, d) == IF k \in DOMAIN f THEN f[k] ELSE d
Put(f, k, v) == [x \in DOMAIN f \cup {k} |-> IF x = k THEN v ELSE f[x]]
Del(f, k) == [x \in DOMAIN f \ {k} |-> f[x]]
Min(a, b) == IF a < b THEN a ELSE b
Max(a, b) == IF a > b THEN a ELSE b
SelectSeqIdx(s, T(_)) == {i \in 1..Len(s) : T(s[i])}

\* bags of records
BagAdd(b, e) == IF e \in DOMAIN b THEN [b EXCEPT ![e] = @ + 1] ELSE Put(b, e, 1)
BagRemove(b, e) == IF b[e] > 1 THEN [b EXCEPT ![e] = @ - 1] ELSE Del(b, e)
RECURSIVE BagSize(_)
BagSize(b) == IF DOMAIN b = {} THEN 0
              ELSE LET e == CHOOSE x \in DOMAIN b : TRUE IN b[e] + BagSize(Del(b, e))

\* ------------------------------------------------------ WebSocket objects
\* this.socket = null
NULL == [rs |-> "NULL", onclose |-> FALSE, onerror |-> FALSE, timeout |-> FALSE,
         opened |-> FALSE, kind |-> "user"]
\* new WebSocket(url) with the handlers and the timeout initializeConnection attaches;
\* kind is the caller whose resolve/reject the handlers hold
NewSock(kind) == [rs |-> "CONNECTING", onclose |-> TRUE, onerror |-> TRUE, timeout |-> TRUE,
                  opened |-> FALSE, kind |-> kind]

CloseCall_noop(rec) == rec
\* WebSocket.close(): CONNECTING and OPEN sockets go to CLOSING
CloseCall(rec) == [rec EXCEPT !.rs = IF @ \in {"CONNECTING", "OPEN"} THEN "CLOSING" ELSE @]

\* fields of a transport object that nothing can read any more are reset: the
\* handlers of a CLOSED socket never run, and the caller kind is read only by
\* onopen (CONNECTING) and by the connection timeout while it is pending
Norm(rec) ==
  [rec EXCEPT !.onclose = @ /\ rec.rs # "CLOSED",
              !.onerror = @ /\ rec.rs # "CLOSED",
              !.opened = @ /\ rec.rs # "CLOSED",
              !.kind = IF rec.rs = "CONNECTING" \/ rec.timeout THEN @ ELSE "user"]
\* a closed transport nobody references and whose timeout is gone is garbage
Garbage(rec) == rec.rs \in {"CLOSED", "NULL"} /\ ~rec.timeout
\* a dropped socket that is closing after it had opened closes without an error
\* event, so its onerror handler never runs: it is kept as one that never
\* opened and has no onerror handler
NormOrphan(rec) ==
  LET r == Norm(rec)
  IN IF r.rs = "CLOSING" THEN [r EXCEPT !.onerror = @ /\ ~r.opened, !.opened = FALSE] ELSE r
Orphan(b, rec) == IF Garbage(rec) THEN b ELSE BagAdd(b, NormOrphan(rec))

\* ------------------------------------------------------- wire and exchange
NoParam == 0
SubMsg(name, pair, param) == [event |-> "subscribe", name |-> name, pair |-> pair, param |-> param]
UnsubMsg(name, pair) == [event |-> "unsubscribe", name |-> name, pair |-> pair, param |-> NoParam]
PingMsg == [event |-> "ping", name |-> "", pair |-> "", param |-> NoParam]
MsgKey(m) == <<m.name, m.pair>>

RECURSIVE UpstreamAfter(_, _)
UpstreamAfter(up, msgs) ==
  IF msgs = <<>> THEN up
  ELSE LET m == Head(msgs)
           up1 == IF m.event = "subscribe" THEN up \cup {MsgKey(m)}
                  ELSE IF m.event = "unsubscribe" THEN up \ {MsgKey(m)}
                  ELSE up
       IN UpstreamAfter(up1, Tail(msgs))

\* the subscriptionStatus frame the exchange answers a request with
StatusFrame(m) == [status |-> IF m.event = "subscribe" THEN "subscribed" ELSE "unsubscribed",
                      name |-> m.name, pair |-> m.pair, channelID |-> chanId(MsgKey(m))]
RECURSIVE Acks(_)
Acks(msgs) ==
  IF msgs = <<>> THEN <<>>
  ELSE IF Head(msgs).event \in {"subscribe", "unsubscribe"}
       THEN <<StatusFrame(Head(msgs))>> \o Acks(Tail(msgs))
       ELSE Acks(Tail(msgs))
Trunc(q, n) == SubSeq(q, 1, Min(Len(q), n))

\* ------------------------------------------------ KrakenWebSocketService
\* the service object as a record, so that methods compose sequentially
Cur == [socket |-> socket, orphans |-> orphans, connectionState |-> connectionState,
        reconnectAttempts |-> reconnectAttempts, reconnectTimeoutId |-> reconnectTimeoutId,
        reconnectTimerPending |-> reconnectTimerPending, heartbeatInterval |-> heartbeatInterval,
        subscriptions |-> subscriptions, waiters |-> waiters,
        tx |-> <<>>, settle |-> <<>>, delay |-> 0, ret |-> "none"]

ReadyState(S) == S.socket.rs

\* send(): the two early returns
CanSend_nonNull(S) == S.socket # NULL
CanSend(S) == S.socket # NULL /\ S.socket.rs = "OPEN"
send(S, m) == IF CanSend(S) THEN [S EXCEPT !.tx = Append(@, m), !.ret = "true"]
              ELSE [S EXCEPT !.ret = "false"]

subscribe(S, m) == IF S.socket = NULL THEN [S EXCEPT !.ret = "false"] ELSE send(S, m)
subscribeTicker(S, pair) == subscribe(S, SubMsg("ticker", pair, NoParam))
subscribeOrderBook(S, pair, depth) == subscribe(S, SubMsg("book", pair, depth))
subscribeTrades(S, pair) == subscribe(S, SubMsg("trade", pair, NoParam))
\* every pair of the model contains a slash, so subscribeOHLC leaves it as it is
subscribeOHLC(S, pair, interval) == subscribe(S, SubMsg("ohlc", pair, interval))
unsubscribe(S, name, pair) == send(S, UnsubMsg(name, pair))

ReplayCall_keepsDepth(S, key) == subscribe(S, SubMsg(key[1], key[2], ManagerDepth))
\* which request resubscribe() issues for a binding
ReplayCall(S, key) ==
  CASE key[1] = "ticker" -> subscribeTicker(S, key[2])
    [] key[1] = "book" -> subscribeOrderBook(S, key[2], DefaultDepth)
    [] key[1] = "ohlc" -> subscribeOHLC(S, key[2], DefaultInterval)
    [] key[1] = "trade" -> subscribeTrades(S, key[2])
    [] OTHER -> S
RECURSIVE resubscribeLoop(_, _)
resubscribeLoop(S, entries) ==
  IF entries = <<>> THEN S
  ELSE resubscribeLoop(ReplayCall(S, Head(entries).key), Tail(entries))
\* the keys resubscribe() replays: the binding table
ReplaySource(S) == S.subscriptions
resubscribe(S) == resubscribeLoop([S EXCEPT !.subscriptions = <<>>], ReplaySource(S))

\* reconnectDelay * Math.pow(1.5, attempts - 1): exact in a double for the
\* attempts the service makes, 2000 being a multiple of 2^(attempts - 1)
backoff_constant(attempts) == reconnectDelay
backoff(attempts) == (reconnectDelay * 3^(attempts - 1)) \div 2^(attempts - 1)

handleReconnect(S) ==
  LET S0 == IF S.reconnectTimeoutId # "null" THEN [S EXCEPT !.reconnectTimerPending = FALSE] ELSE S
  IN IF S0.reconnectAttempts < maxReconnectAttempts
     THEN [S0 EXCEPT !.reconnectAttempts = @ + 1, !.connectionState = "reconnecting",
                     !.delay = backoff(S0.reconnectAttempts + 1),
                     !.reconnectTimeoutId = "set", !.reconnectTimerPending = TRUE]
     ELSE [S0 EXCEPT !.connectionState = "error"]

\* settling the promise of a connect() call, with the continuation its caller attached
resolve(S, kind) ==
  LET S1 == [S EXCEPT !.settle = Append(@, <<kind, "resolved">>)]
  IN IF kind = "reconnect" THEN resubscribe(S1) ELSE S1
reject(S, kind) ==
  LET S1 == [S EXCEPT !.settle = Append(@, <<kind, "rejected">>)]
  IN IF kind = "reconnect" THEN [S1 EXCEPT !.connectionState = "error"] ELSE S1

\* the existing socket after initializeConnection has closed it
ClosedOld(S) == CloseCall([S.socket EXCEPT !.onclose = FALSE, !.onerror = FALSE])
initializeConnection(S, kind) ==
  [S EXCEPT !.connectionState = "connecting",
            !.orphans = Orphan(@, ClosedOld(S)),
            !.socket = NewSock(kind)]
CanCreate(S) == BagSize(Orphan(S.orphans, ClosedOld(S))) + 1 <= MaxSockets

\* what connect() does when the socket is CONNECTING
WaitInFlight_opens(S, kind) == initializeConnection(S, kind)
WaitInFlight(S, kind) == [S EXCEPT !.waiters[kind] = @ + 1]
connect(S, kind) ==
  IF ReadyState(S) = "OPEN" THEN resolve([S EXCEPT !.connectionState = "connected"], kind)
  ELSE IF ReadyState(S) = "CONNECTING" THEN WaitInFlight(S, kind)
  ELSE initializeConnection(S, kind)
ConnectEnabled(S, kind) ==
  CASE ReadyState(S) = "OPEN" -> TRUE
    [] ReadyState(S) = "CONNECTING" -> S.waiters[kind] < MaxWaiters
    [] OTHER -> CanCreate(S)

disconnect_keepsOnclose(S) ==
  [S EXCEPT !.heartbeatInterval = FALSE,
            !.reconnectTimeoutId = "null", !.reconnectTimerPending = FALSE,
            !.orphans = Orphan(@, CloseCall(S.socket)),
            !.socket = NULL,
            !.subscriptions = <<>>]
disconnect(S) ==
  [S EXCEPT !.heartbeatInterval = FALSE,
            !.reconnectTimeoutId = "null", !.reconnectTimerPending = FALSE,
            !.orphans = Orphan(@, CloseCall([S.socket EXCEPT !.onclose = FALSE])),
            !.socket = NULL,
            !.subscriptions = <<>>]

forceReconnect(S) ==
  connect([disconnect(S) EXCEPT !.connectionState = "disconnected", !.reconnectAttempts = 0], "user")

\* socket.onopen
onopen(S) ==
  resolve([S EXCEPT !.socket.timeout = FALSE, !.reconnectAttempts = 0,
                    !.heartbeatInterval = TRUE, !.connectionState = "connected"],
          S.socket.kind)
\* socket.onerror
onerror(S) == [S EXCEPT !.connectionState = "error"]
\* socket.onclose; the handler clears the timeout of its own attempt
onclose(S) ==
  handleReconnect([S EXCEPT !.heartbeatInterval = FALSE, !.connectionState = "disconnected"])
\* the body of the connectionTimeout callback; kind is the caller whose reject it holds
connectionTimeout(S, kind) ==
  IF S.socket # NULL /\ S.socket.rs # "OPEN"
  THEN reject([S EXCEPT !.connectionState = "error",
                        !.socket = CloseCall([@ EXCEPT !.onclose = FALSE])],
              kind)
  ELSE S

\* the checkConnection interval of a waiting connect() caller
checkConnection(S, kind) ==
  IF ReadyState(S) = "OPEN"
  THEN resolve([S EXCEPT !.waiters[kind] = @ - 1, !.connectionState = "connected"], kind)
  ELSE IF ReadyState(S) \in {"NULL", "CLOSED"}
  THEN initializeConnection([S EXCEPT !.waiters[kind] = @ - 1], kind)
  ELSE S

\* handleSubscriptionStatus
SubIndex(subs, key) == SelectSeqIdx(subs, LAMBDA e : e.key = key)
MapSet(subs, key, id) ==
  IF SubIndex(subs, key) # {}
  THEN [i \in 1..Len(subs) |-> IF subs[i].key = key THEN [key |-> key, id |-> id] ELSE subs[i]]
  ELSE Append(subs, [key |-> key, id |-> id])
MapDelete_all(subs, key) == <<>>
MapDelete(subs, key) == SelectSeq(subs, LAMBDA e : e.key # key)
handleSubscriptionStatus(S, f) ==
  IF f.status = "subscribed"
  THEN [S EXCEPT !.subscriptions = MapSet(@, <<f.name, f.pair>>, f.channelID)]
  ELSE IF f.status = "unsubscribed"
  THEN [S EXCEPT !.subscriptions = MapDelete(@, <<f.name, f.pair>>)]
  ELSE S

\* commit the record: the new state of the service and what went over the wire;
\* frames in flight are lost once this.socket is no longer an open transport
Commit(R, upBase, ibBase, label) ==
  /\ op' = label
  /\ socket' = Norm(R.socket)
  /\ orphans' = R.orphans
  /\ connectionState' = R.connectionState
  /\ reconnectAttempts' = R.reconnectAttempts
  /\ reconnectTimeoutId' = R.reconnectTimeoutId
  /\ reconnectTimerPending' = R.reconnectTimerPending
  /\ heartbeatInterval' = R.heartbeatInterval
  /\ subscriptions' = R.subscriptions
  /\ waiters' = R.waiters
  /\ tx' = R.tx
  /\ settle' = R.settle
  /\ delay' = R.delay
  /\ ret' = R.ret
  /\ upstream' = UpstreamAfter(upBase, R.tx)
  /\ inbox' = IF R.socket.rs = "OPEN" THEN Trunc(ibBase \o Acks(R.tx), MaxInflight) ELSE <<>>

SvcOnly == /\ delivered' = <<>>
           /\ arg' = <<>>
           /\ UNCHANGED <<muxVars, bookVars, messageHandlers, now>>

\* ----------------------------------------------------------------- actions
\* a consumer calls connect()
Connect ==
  /\ ConnectEnabled(Cur, "user")
  /\ Commit(connect(Cur, "user"), upstream, inbox, "connect")
  /\ SvcOnly

\* the reconnect timer armed by handleReconnect fires
ReconnectFire ==
  /\ reconnectTimerPending
  /\ LET S == [Cur EXCEPT !.reconnectTimerPending = FALSE]
     IN /\ ConnectEnabled(S, "reconnect")
        /\ Commit(connect(S, "reconnect"), upstream, inbox, "reconnectTimer")
  /\ SvcOnly

\* a waiting connect() caller polls the socket
PollTick(kind) ==
  /\ waiters[kind] > 0
  /\ ReadyState(Cur) \in {"OPEN", "NULL", "CLOSED"}
  /\ ReadyState(Cur) \in {"NULL", "CLOSED"} => CanCreate(Cur)
  /\ Commit(checkConnection(Cur, kind), upstream, inbox, "checkConnection")
  /\ SvcOnly

\* the transport of the attempt in flight opens: a new session at the exchange
\* (a socket on which close() was called never opens, so only this.socket can)
SocketOpen ==
  /\ socket.rs = "CONNECTING"
  /\ Commit(onopen([Cur EXCEPT !.socket.rs = "OPEN", !.socket.opened = TRUE]), {}, <<>>, "onopen")
  /\ SvcOnly

\* whether the close of transport rec is preceded by an error event: always when
\* it never opened, never when close() was called on an opened one
ErrOk(rec, err) == /\ ~rec.opened => err
                   /\ (rec.opened /\ rec.rs = "CLOSING") => ~err

\* the transport in this.socket closes
SocketClose(err) ==
  /\ socket.rs \in {"CONNECTING", "OPEN", "CLOSING"}
  /\ ErrOk(socket, err)
  /\ LET S0 == [Cur EXCEPT !.socket.rs = "CLOSED"]
         S1 == IF err /\ socket.onerror THEN onerror(S0) ELSE S0
         S2 == IF socket.onclose THEN onclose([S1 EXCEPT !.socket.timeout = FALSE]) ELSE S1
     IN Commit(S2, upstream, inbox, "onclose")
  /\ SvcOnly

\* a transport the service no longer references closes
OrphanClose(o, err) ==
  /\ o \in DOMAIN orphans
  /\ o.rs = "CLOSING"
  /\ ErrOk(o, err)
  /\ LET S0 == [Cur EXCEPT !.orphans =
                      Orphan(BagRemove(@, o), [o EXCEPT !.rs = "CLOSED",
                                                        !.timeout = @ /\ ~o.onclose])]
         S1 == IF err /\ o.onerror THEN onerror(S0) ELSE S0
         S2 == IF o.onclose THEN onclose(S1) ELSE S1
     IN Commit(S2, upstream, inbox, "orphanClose")
  /\ SvcOnly

\* the 10 s connection timeout of the attempt that created this.socket fires
ConnTimeoutFire ==
  /\ socket.timeout
  /\ Commit(connectionTimeout([Cur EXCEPT !.socket.timeout = FALSE], socket.kind), upstream, inbox, "connectionTimeout")
  /\ SvcOnly

\* the 10 s connection timeout of an attempt whose socket was dropped fires
OrphanTimeoutFire(o) ==
  /\ o \in DOMAIN orphans
  /\ o.timeout
  /\ Commit(connectionTimeout([Cur EXCEPT !.orphans =
                                 Orphan(BagRemove(@, o), [o EXCEPT !.timeout = FALSE])], o.kind),
            upstream, inbox, "connectionTimeout")
  /\ SvcOnly

\* the 30 s heartbeat interval fires
HeartbeatFire ==
  /\ heartbeatInterval
  /\ Commit(send(Cur, PingMsg), upstream, inbox, "heartbeat")
  /\ SvcOnly

Disconnect ==
  /\ Commit(disconnect(Cur), {}, <<>>, "disconnect")
  /\ SvcOnly

ForceReconnect ==
  /\ ConnectEnabled([disconnect(Cur) EXCEPT !.connectionState = "disconnected",
                                            !.reconnectAttempts = 0], "user")
  /\ Commit(forceReconnect(Cur), {}, <<>>, "forceReconnect")
  /\ SvcOnly

\* a caller of the service sends a frame
Send(m) ==
  /\ Commit(send(Cur, m), upstream, inbox, "send")
  /\ SvcOnly

\* a hook subscribes or unsubscribes directly on the service
DirectCall(S, k) ==
  CASE k[1] = "ticker" -> subscribeTicker(S, k[2])
    [] k[1] = "book" -> subscribeOrderBook(S, k[2], ManagerDepth)
    [] k[1] = "ohlc" -> subscribeOHLC(S, k[2], DefaultInterval)
    [] OTHER -> subscribeTrades(S, k[2])
SvcSubscribe(k) ==
  /\ Commit(DirectCall(Cur, k), upstream, inbox, "subscribe")
  /\ SvcOnly
SvcUnsubscribe(k) ==
  /\ Commit(unsubscribe(Cur, k[1], k[2]), upstream, inbox, "unsubscribe")
  /\ SvcOnly

\* a consumer subscribes a book key with a depth or an ohlc key with an interval
SubscribeWith(k, param) ==
  /\ Commit(IF k[1] = "book" THEN subscribeOrderBook(Cur, k[2], param)
            ELSE subscribeOHLC(Cur, k[2], param), upstream, inbox, "subscribe")
  /\ delivered' = <<>>
  /\ arg' = <<k, param>>
  /\ UNCHANGED <<muxVars, bookVars, messageHandlers, now>>

\* the oldest status frame in flight arrives: handleMessage
StatusArrive ==
  /\ inbox # <<>>
  /\ Commit(handleSubscriptionStatus(Cur, Head(inbox)), upstream, Tail(inbox), "handleMessage")
  /\ SvcOnly

\* --------------------------------------------------- SubscriptionManager
\* a Set of callbacks in insertion order
SetAdd(q, e) == IF e \in Range(q) THEN q ELSE Append(q, e)
SetDelete_keeps(q, e) == q
SetDelete(q, e) == SelectSeq(q, LAMBDA x : x # e)

\* KrakenWebSocketService.on / off on the handler table
on(H, channelName, handler) == [H EXCEPT ![channelName] = Append(@, handler)]
off(H, channelName, handler) ==
  LET idx == SelectSeqIdx(H[channelName], LAMBDA h : h = handler)
  IN IF idx = {} THEN H
     ELSE LET i == CHOOSE j \in idx : \A l \in idx : j <= l
          IN [H EXCEPT ![channelName] = SubSeq(@, 1, i - 1) \o SubSeq(@, i + 1, Len(@))]

\* createChannelHandler returns a new closure on every call: id tells the
\* closures of one (channel, pair) apart; a closure that was never registered is 0
FreshId == 0
createChannelHandler(channel, pair, id) == [channel |-> channel, pair |-> pair, id |-> id]

\* the manager and the service it calls, as one record
MgrCur == [activeSubscriptions |-> activeSubscriptions, subscriptionCounts |-> subscriptionCounts,
           lastUpdateTime |-> lastUpdateTime, pendingUpdates |-> pendingUpdates,
           throttleTimers |-> throttleTimers, messageHandlers |-> messageHandlers,
           baseThrottleInterval |-> baseThrottleInterval,
           maxThrottleInterval |-> maxThrottleInterval,
           svc |-> Cur, delivered |-> <<>>]

mgrSubscribe(M, key, callback) ==
  IF Has(M.activeSubscriptions, key)
  THEN [M EXCEPT !.activeSubscriptions[key] = SetAdd(@, callback),
                 !.subscriptionCounts = Put(@, key, Get(@, key, 0) + 1),
                 !.svc.ret = "true"]
  ELSE LET H == on(M.messageHandlers, key[1],
                   createChannelHandler(key[1], key[2], Len(M.messageHandlers[key[1]]) + 1))
           S == DirectCall(M.svc, key)
       IN IF S.ret = "true"
          THEN [M EXCEPT !.activeSubscriptions = Put(@, key, <<callback>>),
                         !.subscriptionCounts = Put(@, key, 1),
                         !.lastUpdateTime = Put(@, key, 0),
                         !.messageHandlers = H, !.svc = S]
          ELSE [M EXCEPT !.activeSubscriptions = Del(@, key),
                         !.subscriptionCounts = Del(@, key),
                         !.lastUpdateTime = Del(@, key),
                         !.messageHandlers = H, !.svc = S]

\* unsubscribe(): other subscribers remain
StillShared_never(count) == FALSE
StillShared(count) == count > 1
mgrUnsubscribe(M, key, callback) ==
  IF ~Has(M.activeSubscriptions, key) THEN [M EXCEPT !.svc.ret = "true"]
  ELSE LET count == Get(M.subscriptionCounts, key, 0)
       IN IF StillShared(count)
          THEN [M EXCEPT !.activeSubscriptions[key] = SetDelete(@, callback),
                         !.subscriptionCounts = Put(@, key, count - 1),
                         !.svc.ret = "true"]
          ELSE [M EXCEPT !.activeSubscriptions = Del(@, key),
                         !.subscriptionCounts = Del(@, key),
                         !.lastUpdateTime = Del(@, key),
                         !.throttleTimers = Del(@, key),
                         !.pendingUpdates = Del(@, key),
                         !.messageHandlers = off(@, key[1], createChannelHandler(key[1], key[2], FreshId)),
                         !.svc = unsubscribe(M.svc, key[1], key[2])]

ThrottleInterval_uncapped(M, key) == M.baseThrottleInterval * Get(M.subscriptionCounts, key, 1)
\* the interval the handler computes for a key
ThrottleInterval(M, key) ==
  LET c == Get(M.subscriptionCounts, key, 0)
      subscriberCount == IF c = 0 THEN 1 ELSE c
  IN Min(M.baseThrottleInterval * subscriberCount, M.maxThrottleInterval)

\* a handler that delivers at once when no timer runs and the interval has passed
channelHandler_immediate(M, h, frame, t) ==
  LET key == <<h.channel, h.pair>>
      cbs == Get(M.activeSubscriptions, key, <<>>)
  IN IF frame.tag # "" /\ frame.tag # h.pair THEN M
     ELSE IF cbs = <<>> THEN M
     ELSE IF Has(M.throttleTimers, key)
             \/ t - Get(M.lastUpdateTime, key, 0) < ThrottleInterval(M, key)
     THEN [M EXCEPT !.pendingUpdates = Put(@, key, frame.payload)]
     ELSE [M EXCEPT !.lastUpdateTime = Put(@, key, t),
                    !.delivered = @ \o [i \in 1..Len(cbs) |-> <<key, cbs[i], frame.payload>>]]

channelHandler_unfiltered(M, h, frame, t) ==
  LET key == <<h.channel, h.pair>>
  IN IF ~Has(M.activeSubscriptions, key) \/ M.activeSubscriptions[key] = <<>> THEN M
     ELSE [M EXCEPT !.pendingUpdates = Put(@, key, frame.payload)]
\* the closure createChannelHandler returned, called with a frame at time t;
\* frame.tag is the _pair property handleMessage attached ("" when none)
channelHandler(M, h, frame, t) ==
  LET key == <<h.channel, h.pair>>
  IN IF frame.tag # "" /\ frame.tag # h.pair THEN M
     ELSE IF ~Has(M.activeSubscriptions, key) \/ M.activeSubscriptions[key] = <<>> THEN M
     ELSE LET M1 == [M EXCEPT !.pendingUpdates = Put(@, key, frame.payload)]
              timeElapsed == t - Get(M.lastUpdateTime, key, 0)
          IN IF Has(M.throttleTimers, key) \/ timeElapsed < ThrottleInterval(M, key) THEN M1
             ELSE [M1 EXCEPT !.throttleTimers = Put(@, key, t + ThrottleInterval(M, key))]

RECURSIVE dispatch(_, _, _, _)
dispatch(M, handlers, frame, t) ==
  IF handlers = <<>> THEN M
  ELSE dispatch(channelHandler(M, Head(handlers), frame, t), Tail(handlers), frame, t)

getChannelInfoById_none(subs, channelID) == <<>>
\* getChannelInfoById: the first binding with that id
getChannelInfoById(subs, channelID) ==
  LET idx == SelectSeqIdx(subs, LAMBDA e : e.id = channelID)
  IN IF idx = {} THEN <<>> ELSE subs[CHOOSE j \in idx : \A l \in idx : j <= l].key

\* handleMessage on a data frame [channelID, payload, name, pair]
handleData(M, frame, t) ==
  LET info == getChannelInfoById(M.svc.subscriptions, frame.channelID)
      channelName == IF info # <<>> THEN info[1] ELSE frame.name
      pairName == IF info # <<>> THEN info[2] ELSE frame.pair
  IN IF channelName \notin DOMAIN M.messageHandlers THEN M
     ELSE dispatch(M, M.messageHandlers[channelName], [frame EXCEPT !.tag = pairName], t)

\* the callback of the throttle timer of a key, run at time t
throttleTimeout(M, key, t) ==
  IF ~Has(M.pendingUpdates, key) THEN M
  ELSE LET pendingData == M.pendingUpdates[key]
           M1 == [M EXCEPT !.lastUpdateTime = Put(@, key, t),
                           !.throttleTimers = Del(@, key),
                           !.pendingUpdates = Del(@, key)]
           currentCallbacks == Get(M.activeSubscriptions, key, <<>>)
       IN [M1 EXCEPT !.delivered =
             [i \in 1..Len(currentCallbacks) |-> <<key, currentCallbacks[i], pendingData>>]]

MgrCommit(M, label, a) ==
  /\ Commit(M.svc, upstream, inbox, label)
  /\ activeSubscriptions' = M.activeSubscriptions
  /\ subscriptionCounts' = M.subscriptionCounts
  /\ lastUpdateTime' = M.lastUpdateTime
  /\ pendingUpdates' = M.pendingUpdates
  /\ throttleTimers' = M.throttleTimers
  /\ messageHandlers' = M.messageHandlers
  /\ delivered' = M.delivered
  /\ arg' = a
  /\ UNCHANGED <<baseThrottleInterval, maxThrottleInterval, bookVars>>

\* a consumer subscribes a callback through the manager
MgrSubscribe(k, cb) ==
  /\ IF Has(activeSubscriptions, k) THEN subscriptionCounts[k] < MaxCount
     ELSE Len(messageHandlers[k[1]]) < MaxHandlers
  /\ MgrCommit(mgrSubscribe(MgrCur, k, cb), "mgrSubscribe", <<k, cb>>)
  /\ UNCHANGED now

MgrUnsubscribe(k, cb) ==
  /\ MgrCommit(mgrUnsubscribe(MgrCur, k, cb), "mgrUnsubscribe", <<k, cb>>)
  /\ UNCHANGED now

\* handleOrderBookUpdate of useOrderBook is a useCallback over isVisible: the
\* render with the other visibility holds another function than the one subscribed
handleOrderBookUpdate(cb, isVisible) == IF isVisible THEN cb ELSE "hidden"

\* a subscribed order-book consumer is marked not-visible: the effect over
\* [pair, isVisible, ...] is cleaned up (unsubscribe of the handler subscribed) and
\* re-run (connect(), no subscribe while hidden), then the visibility effect,
\* whose isSubscribed is still true in this render, unsubscribes again
SetNotVisible(k, cb) ==
  /\ \E i \in 1..Len(Get(activeSubscriptions, k, <<>>)) : activeSubscriptions[k][i] = cb
  /\ LET M1 == mgrUnsubscribe(MgrCur, k, cb)
         M2 == [M1 EXCEPT !.svc = connect(M1.svc, "user")]
         M3 == mgrUnsubscribe(M2, k, handleOrderBookUpdate(cb, FALSE))
     IN /\ ConnectEnabled(M1.svc, "user")
        /\ MgrCommit(M3, "setNotVisible", <<k, cb>>)
  /\ UNCHANGED now

\* the exchange sends a data frame of a key subscribed on this session; name is
\* the channel name the frame carries inline
DataArrive(k, p, name) ==
  /\ socket.rs = "OPEN"
  /\ k \in upstream
  /\ MgrCommit(handleData(MgrCur, [channelID |-> chanId(k), payload |-> p, name |-> name,
                                   pair |-> k[2], tag |-> ""], now),
               "handleMessage", <<k, p>>)
  /\ UNCHANGED now

\* the throttle timer of a key fires
ThrottleFire(k) ==
  /\ Has(throttleTimers, k)
  /\ now >= throttleTimers[k]
  /\ MgrCommit(throttleTimeout(MgrCur, k, now), "throttleTimer", <<k>>)
  /\ UNCHANGED now

\* try { callback(pendingData) } catch (err) { console.error(...) } for a
\* callback that throws when it is in throwers
call_unguarded(callback, throwers) == IF callback \in throwers THEN "thrown" ELSE "returned"
call(callback, throwers) == IF callback \in throwers THEN "caught" ELSE "returned"
\* currentCallbacks.forEach: the invocations made, ending at an exception that escapes
RECURSIVE forEachCallback(_, _, _, _)
forEachCallback(callbacks, key, data, throwers) ==
  IF callbacks = <<>> THEN <<>>
  ELSE <<<<key, Head(callbacks), data>>>>
         \o IF call(Head(callbacks), throwers) = "thrown" THEN <<>>
            ELSE forEachCallback(Tail(callbacks), key, data, throwers)
\* the callback of the throttle timer of a key, run at time t while the
\* callbacks in throwers throw
throttleTimeoutThrowing(M, key, t, throwers) ==
  IF ~Has(M.pendingUpdates, key) THEN M
  ELSE LET pendingData == M.pendingUpdates[key]
           M1 == [M EXCEPT !.lastUpdateTime = Put(@, key, t),
                           !.throttleTimers = Del(@, key),
                           !.pendingUpdates = Del(@, key)]
           currentCallbacks == Get(M.activeSubscriptions, key, <<>>)
       IN [M1 EXCEPT !.delivered = forEachCallback(currentCallbacks, key, pendingData, throwers)]

\* the throttle timer of a key fires while some callbacks throw
ThrottleFireThrowing(k, throwers) ==
  /\ Has(throttleTimers, k)
  /\ now >= throttleTimers[k]
  /\ MgrCommit(throttleTimeoutThrowing(MgrCur, k, now, throwers), "throttleTimer", <<k, throwers>>)
  /\ UNCHANGED now

\* ---------------------------------------------------------- inbound frames
\* what the transport hands to onmessage: text that is not JSON, event objects,
\* subscriptionStatus objects and arrays. An array of fewer than 4 elements has
\* no inline channel name (name ""); one of 4 elements carries the channel name
\* of the wire, which need not be the subscription name, and the pair; the
\* payload of a data frame tells which instrument the event is about
NoFrame == [type |-> "text", event |-> "", status |-> "", channelID |-> 0, payload |-> 0,
            name |-> "", pair |-> "", tag |-> ""]
EventFrames == {[NoFrame EXCEPT !.type = "object", !.event = e] : e \in {"pong", "heartbeat", "systemStatus"}}
StatusFrames ==
  {[NoFrame EXCEPT !.type = "object", !.event = "subscriptionStatus", !.status = st,
                   !.name = k[1], !.pair = k[2], !.channelID = chanId(k)] :
     st \in {"subscribed", "unsubscribed", "error", "pending"}, k \in RouteKeys}
DataFrames ==
  {[NoFrame EXCEPT !.type = "array", !.channelID = chanId(k), !.payload = chanId(k), !.name = n,
                   !.pair = IF n = "" THEN "" ELSE k[2]] :
     k \in RouteKeys, n \in {"ticker", "other", ""}}
Frames == {NoFrame, [NoFrame EXCEPT !.type = "array"]} \cup EventFrames \cup StatusFrames \cup DataFrames
\* the registered handlers that throw when they are called
Throwers == {{}, {1}}

\* handlers.forEach: every handler is called inside its own try/catch, with the
\* message tagged with pairName; an invocation is recorded as
\* <<<<channelName, pairName>>, "handler", id>>
RECURSIVE forEachHandler(_, _, _, _, _)
forEachHandler(M, handlers, frame, t, throwers) ==
  IF handlers = <<>> THEN M
  ELSE LET h == Head(handlers)
           M1 == [M EXCEPT !.delivered = Append(@, <<<<h.channel, frame.tag>>, "handler", h.id>>)]
           M2 == IF h.id \in throwers THEN M1 ELSE channelHandler(M1, h, frame, t)
       IN forEachHandler(M2, Tail(handlers), frame, t, throwers)

\* the try block of handleMessage; ret "thrown" is an exception leaving it
handleMessageBody(M, data, t, throwers) ==
  IF data.type = "text" THEN [M EXCEPT !.svc.ret = "thrown"]
  ELSE IF data.event = "pong" THEN M
  ELSE IF data.event = "subscriptionStatus"
  THEN [M EXCEPT !.svc = handleSubscriptionStatus(M.svc, data)]
  ELSE IF data.type = "array"
  THEN LET channelInfo == getChannelInfoById(M.svc.subscriptions, data.channelID)
           channelName == IF channelInfo # <<>> THEN channelInfo[1] ELSE data.name
           pairName == IF channelInfo # <<>> THEN channelInfo[2] ELSE data.pair
       IN IF channelName = "" \/ channelName \notin DOMAIN M.messageHandlers THEN M
          ELSE forEachHandler(M, M.messageHandlers[channelName],
                              [data EXCEPT !.tag = pairName], t, throwers)
  ELSE M
\* catch (error) { console.error(...) }
catchError_rethrows(M) == M
catchError(M) == IF M.svc.ret = "thrown" THEN [M EXCEPT !.svc.ret = "none"] ELSE M
handleMessage(M, data, t, throwers) == catchError(handleMessageBody(M, data, t, throwers))

\* socket.onmessage: a frame arrives on the open transport
FrameArrive(data, throwers) ==
  /\ socket.rs = "OPEN"
  /\ MgrCommit(handleMessage(MgrCur, data, now, throwers), "onmessage", <<data, throwers>>)
  /\ UNCHANGED now

\* time passes
Tick ==
  /\ now + TickStep <= MaxNow
  /\ now' = now + TickStep
  /\ op' = "tick"
  /\ tx' = <<>> /\ settle' = <<>> /\ delay' = 0 /\ delivered' = <<>> /\ ret' = "none" /\ arg' = <<>>
  /\ UNCHANGED <<svcVars, wireVars, muxVars, bookVars, messageHandlers>>

\* the intervals a caller may pass to the setters
ThrottleInputs == {0, 200}

\* setBaseThrottleInterval / setMaxThrottleInterval
setBaseThrottleInterval(interval) == Max(MinBaseThrottle, interval)
setMaxThrottleInterval(interval) == Max(MinMaxThrottle, interval)

SetBaseThrottleInterval(interval) ==
  /\ baseThrottleInterval' = setBaseThrottleInterval(interval)
  /\ op' = "setBaseThrottleInterval"
  /\ arg' = <<interval>>
  /\ tx' = <<>> /\ settle' = <<>> /\ delay' = 0 /\ delivered' = <<>> /\ ret' = "none"
  /\ UNCHANGED <<svcVars, wireVars, bookVars, messageHandlers, now, activeSubscriptions,
                 subscriptionCounts, lastUpdateTime, pendingUpdates, throttleTimers,
                 maxThrottleInterval>>

SetMaxThrottleInterval(interval) ==
  /\ maxThrottleInterval' = setMaxThrottleInterval(interval)
  /\ op' = "setMaxThrottleInterval"
  /\ arg' = <<interval>>
  /\ tx' = <<>> /\ settle' = <<>> /\ delay' = 0 /\ delivered' = <<>> /\ ret' = "none"
  /\ UNCHANGED <<svcVars, wireVars, bookVars, messageHandlers, now, activeSubscriptions,
                 subscriptionCounts, lastUpdateTime, pendingUpdates, throttleTimers,
                 baseThrottleInterval>>

\* ------------------------------------------------------------ order book
\* the decimal strings of the wire and what parseFloat makes of them
WirePrices == {"100", "100.0", "101"}
WireVolumes == {"0.00000000", "1", "2"}
parseFloat(str) ==
  CASE str = "100" -> 100
    [] str = "100.0" -> 100
    [] str = "101" -> 101
    [] str = "0.00000000" -> 0
    [] str = "1" -> 1
    [] str = "2" -> 2

\* Array.findIndex on the price; 0 stands for -1
findIndex_none(levels, price) == 0
findIndex(levels, price) ==
  LET idx == SelectSeqIdx(levels, LAMBDA l : l.price = price)
  IN IF idx = {} THEN 0 ELSE CHOOSE j \in idx : \A l \in idx : j <= l
splice(levels, i) == SubSeq(levels, 1, i - 1) \o SubSeq(levels, i + 1, Len(levels))

\* the snapshot entries (as, bs): every entry is pushed
RECURSIVE pushSnapshot(_, _)
pushSnapshot(levels, entries) ==
  IF entries = <<>> THEN levels
  ELSE pushSnapshot(Append(levels, [price |-> parseFloat(Head(entries)[1]),
                                    amount |-> parseFloat(Head(entries)[2]), total |-> 0]),
                    Tail(entries))

\* the update entries (a, b), applied to the array formatOrderBookData builds
RECURSIVE pushUpdates(_, _)
pushUpdates(levels, entries) ==
  IF entries = <<>> THEN levels
  ELSE LET e == Head(entries)
           index == findIndex(levels, parseFloat(e[1]))
           next == IF parseFloat(e[2]) = 0
                   THEN IF index # 0 THEN splice(levels, index) ELSE levels
                   ELSE IF index # 0 THEN [levels EXCEPT ![index].amount = parseFloat(e[2])]
                   ELSE Append(levels, [price |-> parseFloat(e[1]),
                                        amount |-> parseFloat(e[2]), total |-> 0])
       IN pushUpdates(next, Tail(entries))

\* Array.sort with the comparator a.price - b.price (descending: b.price - a.price):
\* a stable sort, as an insertion sort
Before(x, y, descending) == IF descending THEN x.price >= y.price ELSE x.price <= y.price
RECURSIVE sortByPrice(_, _)
sortByPrice(levels, descending) ==
  IF levels = <<>> THEN <<>>
  ELSE LET n == Len(levels)
           x == levels[n]
           sorted == sortByPrice(SubSeq(levels, 1, n - 1), descending)
           keep == {i \in 0..Len(sorted) : \A j \in 1..i : Before(sorted[j], x, descending)}
           at == CHOOSE i \in keep : \A j \in keep : j <= i
       IN SubSeq(sorted, 1, at) \o <<x>> \o SubSeq(sorted, at + 1, Len(sorted))

\* the running total written into every level
RECURSIVE sumAmounts(_)
sumAmounts(levels) ==
  IF levels = <<>> THEN 0 ELSE levels[Len(levels)].amount + sumAmounts(SubSeq(levels, 1, Len(levels) - 1))
withTotals(levels) ==
  [i \in 1..Len(levels) |-> [levels[i] EXCEPT !.total = sumAmounts(SubSeq(levels, 1, i))]]

formatOrderBookData(frame) ==
  [asks |-> withTotals(sortByPrice(pushUpdates(pushSnapshot(<<>>, frame.as), frame.a), FALSE)),
   bids |-> withTotals(sortByPrice(pushUpdates(pushSnapshot(<<>>, frame.bs), frame.b), TRUE))]

\* the setOrderBook updater of useOrderBook, one side
RECURSIVE mergeLevels(_, _)
mergeLevels(updated, formatted) ==
  IF formatted = <<>> THEN updated
  ELSE LET new == Head(formatted)
           existingIndex == findIndex(updated, new.price)
           next == IF new.amount = 0
                   THEN IF existingIndex # 0 THEN splice(updated, existingIndex) ELSE updated
                   ELSE IF existingIndex # 0 THEN [updated EXCEPT ![existingIndex] = new]
                   ELSE Append(updated, new)
       IN mergeLevels(next, Tail(formatted))
mergeOrderBook(prevOrderBook, formattedData) ==
  [asks |-> withTotals(sortByPrice(mergeLevels(prevOrderBook.asks, formattedData.asks), FALSE)),
   bids |-> withTotals(sortByPrice(mergeLevels(prevOrderBook.bids, formattedData.bids), TRUE))]

\* the book frames of the exchange: a snapshot carries as/bs, an update a/b
Entries == WirePrices \X WireVolumes
SeqsUpTo(S, n) == UNION {[1..m -> S] : m \in 0..n}
Sides == {<<x, y>> \in SeqsUpTo(Entries, MaxFrameLevels) \X SeqsUpTo(Entries, MaxFrameLevels) :
            Len(x) + Len(y) <= MaxFrameLevels}
Snapshots == {[as |-> xy[1], bs |-> xy[2], a |-> <<>>, b |-> <<>>] : xy \in Sides}
Updates == {[as |-> <<>>, bs |-> <<>>, a |-> xy[1], b |-> xy[2]] : xy \in Sides}
\* an update of a single entry
IsSingleUpdate(frame) == frame \in Updates /\ Len(frame.a) + Len(frame.b) = 1

\* a book frame reaches the consumer's update of its order book; arg keeps the
\* frame when it is an update of a single entry
ApplyFrame(frame) ==
  /\ orderBook' = mergeOrderBook(orderBook, formatOrderBookData(frame))
  /\ op' = "applyFrame"
  /\ arg' = IF IsSingleUpdate(frame) THEN <<frame>> ELSE <<>>
  /\ tx' = <<>> /\ settle' = <<>> /\ delay' = 0 /\ delivered' = <<>> /\ ret' = "none"
  /\ UNCHANGED <<svcVars, wireVars, muxVars, messageHandlers, now, candles>>

\* ------------------------------------------------------ the candles of useOHLC
\* the open times (s) and closing prices the exchange reports in ohlc frames
CandleTimes == 1..MaxCandles
CandleCloses == {1, 2}
\* Array.sort with the comparator a.time - b.time: a stable sort, as an insertion sort
sortByTime_none(list) == list
RECURSIVE sortByTime(_)
sortByTime(list) ==
  IF list = <<>> THEN <<>>
  ELSE LET n == Len(list)
           x == list[n]
           sorted == sortByTime(SubSeq(list, 1, n - 1))
           keep == {i \in 0..Len(sorted) : \A j \in 1..i : sorted[j].time <= x.time}
           at == CHOOSE i \in keep : \A j \in keep : j <= i
       IN SubSeq(sorted, 1, at) \o <<x>> \o SubSeq(sorted, at + 1, Len(sorted))
\* the setCandles updater of handleOHLCUpdate
mergeCandle(prevCandles, updatedCandle) ==
  LET idx == {i \in 1..Len(prevCandles) : prevCandles[i].time = updatedCandle.time}
  IN IF idx # {}
     THEN [prevCandles EXCEPT ![CHOOSE i \in idx : \A j \in idx : i <= j] = updatedCandle]
     ELSE sortByTime(Append(prevCandles, updatedCandle))
\* an ohlc frame [channelID, [time, ..., close, ...]] of the hook's pair reaches
\* handleOHLCUpdate; the candle's time is in ms
HandleOHLCUpdate(time, close) ==
  /\ candles' = mergeCandle(candles, [time |-> time * 1000, close |-> close])
  /\ op' = "handleOHLCUpdate"
  /\ arg' = <<time, close>>
  /\ tx' = <<>> /\ settle' = <<>> /\ delay' = 0 /\ delivered' = <<>> /\ ret' = "none"
  /\ UNCHANGED <<svcVars, wireVars, muxVars, messageHandlers, now, orderBook>>

\* ------------------------------------------------------ the spread shown
\* formatNumber(num): the number with the fraction digits it is printed with
formatNumber(num) ==
  [num |-> num, grouped |-> num >= 1000, fractionDigits |-> IF num >= 1 THEN 2 ELSE 4]
\* (x / y * 100).toFixed(2), in hundredths of a percent
toPercent(x, y) ==
  IF x >= 0 THEN (2 * x * 10000 + y) \div (2 * y) ELSE 0 - ((2 * (0 - x) * 10000 + y) \div (2 * y))
\* the spreadData memo of the OrderBook component: <<>> stands for null
spreadData_worstAsk(asks, bids) ==
  IF Len(asks) > 0 /\ Len(bids) > 0
  THEN <<[spread |-> formatNumber(asks[Len(asks)].price - bids[1].price),
          percentage |-> toPercent(asks[Len(asks)].price - bids[1].price, bids[1].price)]>>
  ELSE <<>>
spreadData(asks, bids) ==
  IF Len(asks) > 0 /\ Len(bids) > 0
  THEN LET bestAsk == asks[1].price
           bestBid == bids[1].price
           spread == bestAsk - bestBid
       IN <<[spread |-> formatNumber(spread), percentage |-> toPercent(spread, bestBid)]>>
  ELSE <<>>

\* ------------------------------------------------------ pair formatting
\* the assets a TradingPair may name and the keys the static pair table may hold
Assets == {"BTC", "ETH", "USD", "XBT", "LTC"}
Pairs == [baseAsset : Assets, quoteAsset : Assets]
TableKeys == {"BTCUSD", "LTCUSD"}
Wsnames == {"XBT/USD", "XLTC/ZUSD"}
\* what result[key] of krakenPairs.json may be: undefined, an entry without a
\* wsname, an entry with an empty wsname, an entry with a wsname
NoEntry == [present |-> FALSE, hasWsname |-> FALSE, wsname |-> ""]
TableEntries ==
  {NoEntry, [present |-> TRUE, hasWsname |-> FALSE, wsname |-> ""],
   [present |-> TRUE, hasWsname |-> TRUE, wsname |-> ""]}
    \cup {[present |-> TRUE, hasWsname |-> TRUE, wsname |-> w] : w \in Wsnames}
PairTables == [TableKeys -> TableEntries]

\* the assetMap literal of formatPairForKraken
assetMap ==
  [a \in {"BTC", "ETH", "USD", "EUR", "GBP", "JPY", "CAD", "AUD"} |->
     IF a = "BTC" THEN "XBT" ELSE a]
\* assetMap[asset] || asset
mapped_identity(asset) == asset
mapped(asset) == IF asset \in DOMAIN assetMap /\ assetMap[asset] # "" THEN assetMap[asset] ELSE asset

formatPairForKraken(pair, result) ==
  LET key == pair.baseAsset \o pair.quoteAsset
      krakenPair == IF key \in DOMAIN result THEN result[key] ELSE NoEntry
  IN IF krakenPair.present /\ krakenPair.hasWsname /\ krakenPair.wsname # ""
     THEN krakenPair.wsname
     ELSE mapped(pair.baseAsset) \o "/" \o mapped(pair.quoteAsset)

\* a caller formats a pair against the pair table
FormatPair(pair, result) ==
  /\ ret' = formatPairForKraken(pair, result)
  /\ op' = "formatPairForKraken"
  /\ arg' = <<pair, result>>
  /\ tx' = <<>> /\ settle' = <<>> /\ delay' = 0 /\ delivered' = <<>>
  /\ UNCHANGED <<svcVars, wireVars, muxVars, bookVars, messageHandlers, now>>

\* ------------------------------------------------------------------- Init
Init ==
  /\ socket = NULL
  /\ orphans = <<>>
  /\ connectionState = "disconnected"
  /\ reconnectAttempts = 0
  /\ reconnectTimeoutId = "null"
  /\ reconnectTimerPending = FALSE
  /\ heartbeatInterval = FALSE
  /\ subscriptions = <<>>
  /\ messageHandlers = [c \in Channels |-> <<>>]
  /\ waiters = [k \in Kinds |-> 0]
  /\ upstream = {}
  /\ inbox = <<>>
  /\ activeSubscriptions = <<>>
  /\ subscriptionCounts = <<>>
  /\ lastUpdateTime = <<>>
  /\ pendingUpdates = <<>>
  /\ throttleTimers = <<>>
  /\ baseThrottleInterval = DefaultBaseThrottle
  /\ maxThrottleInterval = DefaultMaxThrottle
  /\ now = DefaultMaxThrottle
  /\ orderBook = [asks |-> <<>>, bids |-> <<>>]
  /\ candles = <<>>
  /\ tx = <<>>
  /\ settle = <<>>
  /\ delay = 0
  /\ delivered = <<>>
  /\ ret = "none"
  /\ arg = <<>>
  /\ op = "init"

\* ------------------------------------------- Spec: the connection service
Next ==
  \/ Connect
  \/ ReconnectFire
  \/ \E kind \in {"user", "reconnect"} : PollTick(kind)
  \/ SocketOpen
  \/ \E err \in BOOLEAN : SocketClose(err)
  \/ \E o \in DOMAIN orphans, err \in BOOLEAN : OrphanClose(o, err)
  \/ ConnTimeoutFire
  \/ \E o \in DOMAIN orphans : OrphanTimeoutFire(o)
  \/ HeartbeatFire
  \/ Disconnect
  \/ ForceReconnect
  \/ Send(PingMsg)
  \/ \E k \in SvcKeys : SvcSubscribe(k)
  \/ \E k \in SvcKeys : SvcUnsubscribe(k)
  \/ StatusArrive

Spec == Init /\ [][Next]_vars

\* --------------------------- SpecMux: the SubscriptionManager over the service
\* the transport under the manager: a consumer connects when no attempt is in
\* flight, the attempt opens, and an open transport may drop
ConnectIdle == socket.rs # "CONNECTING" /\ Connect
Drop == socket.rs = "OPEN" /\ SocketClose(FALSE)

NextMux ==
  \/ ConnectIdle
  \/ SocketOpen
  \/ Drop
  \/ StatusArrive
  \/ \E k \in MuxKeys, cb \in Callbacks : MgrSubscribe(k, cb)
  \/ \E k \in MuxKeys, cb \in Callbacks : MgrUnsubscribe(k, cb)
  \/ \E k \in MuxKeys, p \in Payloads : \E name \in {k[1], "other"} : DataArrive(k, p, name)
  \/ \E k \in MuxKeys : ThrottleFire(k)
  \/ Tick

SpecMux == Init /\ [][NextMux]_vars

\* SpecMuxFair: the event loop runs every timer that is due, and time passes;
\* the exchange and the consumers are free to do nothing more
SpecMuxFair ==
  /\ Init /\ [][NextMux]_vars
  /\ WF_vars(Tick)
  /\ \A k \in MuxKeys : WF_vars(ThrottleFire(k))

\* SpecThrottle: the SubscriptionManager on one session of the transport, fed
\* with frames of one payload that name their channel, while the application
\* reconfigures the throttle
NextThrottle ==
  \/ ConnectIdle
  \/ SocketOpen
  \/ StatusArrive
  \/ \E k \in MuxKeys, cb \in Callbacks : MgrSubscribe(k, cb)
  \/ \E k \in MuxKeys, cb \in Callbacks : MgrUnsubscribe(k, cb)
  \/ \E k \in MuxKeys : DataArrive(k, 1, k[1])
  \/ \E k \in MuxKeys : ThrottleFire(k)
  \/ Tick
  \/ \E interval \in ThrottleInputs : SetBaseThrottleInterval(interval)
  \/ \E interval \in ThrottleInputs : SetMaxThrottleInterval(interval)

SpecThrottle == Init /\ [][NextThrottle]_vars

\* SpecThrow: the SubscriptionManager on one session of the transport, with
\* consumer callbacks that may throw
NextThrow ==
  \/ ConnectIdle
  \/ SocketOpen
  \/ StatusArrive
  \/ \E k \in MuxKeys, cb \in Callbacks : MgrSubscribe(k, cb)
  \/ \E k \in MuxKeys, cb \in Callbacks : MgrUnsubscribe(k, cb)
  \/ \E k \in MuxKeys, p \in Payloads : DataArrive(k, p, k[1])
  \/ \E k \in MuxKeys, throwers \in SUBSET Callbacks : ThrottleFireThrowing(k, throwers)
  \/ Tick

SpecThrow == Init /\ [][NextThrow]_vars

\* SpecFrames: the service and the SubscriptionManager under every inbound frame
\* the session is set up once, and the clock runs long enough for one throttle
\* window to open and its timer to fire
ConnectFirst == socket.rs # "OPEN" /\ ConnectIdle
TickEarly == now < DefaultMaxThrottle + FramesHorizon /\ Tick
\* each key has one subscriber
SubscribeNew(k) == ~Has(activeSubscriptions, k) /\ MgrSubscribe(k, "cb1")

NextFrames ==
  \/ ConnectFirst
  \/ SocketOpen
  \/ \E k \in RouteKeys : SubscribeNew(k)
  \/ \E k \in RouteKeys : MgrUnsubscribe(k, "cb1")
  \/ \E data \in Frames : \E throwers \in (IF data.type = "array" THEN Throwers ELSE {{}}) :
       FrameArrive(data, throwers)
  \/ \E k \in RouteKeys : ThrottleFire(k)
  \/ TickEarly

SpecFrames == Init /\ [][NextFrames]_vars

\* SpecReplay: a book key and an ohlc key are subscribed with parameters other
\* than the defaults, the transport drops and the reconnect replays the bindings
NextReplay ==
  \/ ConnectIdle
  \/ SocketOpen
  \/ Drop
  \/ ReconnectFire
  \/ StatusArrive
  \/ \E depth \in {ManagerDepth, 100} : SubscribeWith(<<"book", "ETH/USD">>, depth)
  \/ \E interval \in {5, 15} : SubscribeWith(<<"ohlc", "ETH/USD">>, interval)

SpecReplay == Init /\ [][NextReplay]_vars

\* ------------------------------------ SpecBook: the order book of a consumer
SnapshotArrive == \E frame \in Snapshots : ApplyFrame(frame)
UpdateArrive == \E frame \in Updates : ApplyFrame(frame)

NextBook ==
  \/ SnapshotArrive
  \/ UpdateArrive

SpecBook == Init /\ [][NextBook]_vars

\* --------------------- SpecFeed: the order book feed of useOrderBook consumers
\* consumers of the book subscribe through the manager and may be hidden, while
\* the transport drops, reconnects by its timer, or is disconnected or
\* force-reconnected by the application
NextFeed ==
  \/ ConnectFirst
  \/ SocketOpen
  \/ Drop
  \/ ReconnectFire
  \/ ForceReconnect
  \/ Disconnect
  \/ StatusArrive
  \/ \E k \in SvcKeys, cb \in Callbacks : MgrSubscribe(k, cb)
  \/ \E k \in SvcKeys, cb \in Callbacks : SetNotVisible(k, cb)
  \/ \E k \in SvcKeys, p \in Payloads : DataArrive(k, p, k[1])
  \/ \E k \in SvcKeys : ThrottleFire(k)
  \/ TickEarly

SpecFeed == Init /\ [][NextFeed]_vars

\* ------------ SpecDirect: consumers of the hook that subscribes on the service
\* the mounted instances of the direct variant of useOrderBook
Consumers == {1, 2}
\* the handleOrderBookUpdate callback of a mounted instance, the same function
\* for on() and for off()
hookHandler(k, c) == [channel |-> k[1], pair |-> k[2], id |-> c]

\* setupWebSocket of an instance once connect() has resolved: on(), then subscribe
SetupWebSocket(k, c) ==
  /\ socket.rs = "OPEN"
  /\ Len(messageHandlers[k[1]]) < MaxHandlers
  /\ \A i \in 1..Len(messageHandlers[k[1]]) : messageHandlers[k[1]][i] # hookHandler(k, c)
  /\ LET M1 == [MgrCur EXCEPT !.svc = connect(@, "user")]
         M2 == [M1 EXCEPT !.messageHandlers = on(@, k[1], hookHandler(k, c))]
     IN MgrCommit([M2 EXCEPT !.svc = DirectCall(@, k)], "setupWebSocket", <<k, c>>)
  /\ UNCHANGED now

\* the clean-up of the effect when an instance unmounts: off(), then unsubscribe
Cleanup(k, c) ==
  /\ \E i \in 1..Len(messageHandlers[k[1]]) : messageHandlers[k[1]][i] = hookHandler(k, c)
  /\ LET M1 == [MgrCur EXCEPT !.messageHandlers = off(@, k[1], hookHandler(k, c))]
     IN MgrCommit([M1 EXCEPT !.svc = unsubscribe(@, k[1], k[2])], "cleanup", <<k, c>>)
  /\ UNCHANGED now

NextDirect ==
  \/ ConnectFirst
  \/ SocketOpen
  \/ Drop
  \/ StatusArrive
  \/ \E k \in SvcKeys, c \in Consumers : SetupWebSocket(k, c)
  \/ \E k \in SvcKeys, c \in Consumers : Cleanup(k, c)

SpecDirect == Init /\ [][NextDirect]_vars

\* ------------------------------------------- SpecCandles: the chart of useOHLC
NextCandles == \E time \in CandleTimes, close \in CandleCloses : HandleOHLCUpdate(time, close)

SpecCandles == Init /\ [][NextCandles]_vars

\* ------------------------------------------- SpecPair: formatPairForKraken
NextPair == \E pair \in Pairs, result \in PairTables : FormatPair(pair, result)

SpecPair == Init /\ [][NextPair]_vars

\* ================================================================ claims
SubscribeKeys(msgs) == {MsgKey(msgs[i]) : i \in SelectSeqIdx(msgs, LAMBDA m : m.event = "subscribe")}

\* the subscriber count of a key agrees with its callback set: every
\* subscribe so far brought a callback of its own
Distinct(k) == Has(activeSubscriptions, k) => subscriptionCounts[k] = Len(activeSubscriptions[k])
Callbacks_of(k) == Range(Get(activeSubscriptions, k, <<>>))

\* C1: with the socket open and distinct callbacks, SubscriptionManager sends
\* one upstream subscribe when the first callback of a key subscribes and none
\* for the following ones; unsubscribing a callback while others remain sends
\* nothing; unsubscribing the last one sends exactly one upstream unsubscribe.
C1_OneUpstreamPerKey ==
  [][\A k \in MuxKeys, cb \in Callbacks :
       /\ (/\ op' = "mgrSubscribe" /\ arg' = <<k, cb>> /\ socket.rs = "OPEN"
           /\ Distinct(k) /\ cb \notin Callbacks_of(k))
            => /\ ret' = "true" /\ cb \in Range(activeSubscriptions'[k])
               /\ IF Has(activeSubscriptions, k) THEN tx' = <<>>
                  ELSE /\ Len(tx') = 1 /\ tx'[1].event = "subscribe" /\ MsgKey(tx'[1]) = k
       /\ (/\ op' = "mgrUnsubscribe" /\ arg' = <<k, cb>> /\ socket.rs = "OPEN"
           /\ Distinct(k) /\ cb \in Callbacks_of(k))
            => IF Len(activeSubscriptions[k]) > 1
               THEN /\ tx' = <<>>
                    /\ Range(activeSubscriptions'[k]) = Callbacks_of(k) \ {cb}
               ELSE /\ tx' = <<UnsubMsg(k[1], k[2])>>
                    /\ ~Has(activeSubscriptions', k)]_vars
\* one of two callbacks of a key has unsubscribed; nothing went upstream and
\* the key is still subscribed at the exchange
C1_Witness ==
  /\ op = "mgrUnsubscribe" /\ tx = <<>> /\ socket.rs = "OPEN"
  /\ \E k \in MuxKeys : /\ arg = <<k, "cb1">> /\ k \in upstream
                        /\ Has(activeSubscriptions, k)
                        /\ activeSubscriptions[k] = <<"cb2">> /\ subscriptionCounts[k] = 1

\* C3 (as claimed): every event that arrives for a subscribed key belongs to a
\* throttle window that ends with one delivery: a payload waiting in the stash
\* of a key that has callbacks always has its delivery timer armed.
C3_StashIsDelivered ==
  \A k \in MuxKeys :
    (Has(pendingUpdates, k) /\ Callbacks_of(k) # {}) => Has(throttleTimers, k)

\* C4: after any sequence of snapshot and update frames the asks are strictly
\* ascending by price, the bids strictly descending, and on each side the
\* total of every level is the sum of the amounts up to it, so the total of
\* the last level is the sum of all amounts of the side.
StrictlySorted(levels, descending) ==
  \A i \in 1..Len(levels) - 1 :
    IF descending THEN levels[i].price > levels[i + 1].price
    ELSE levels[i].price < levels[i + 1].price
TotalsAddUp(levels) ==
  /\ \A i \in 1..Len(levels) : levels[i].total = sumAmounts(SubSeq(levels, 1, i))
  /\ levels # <<>> => levels[Len(levels)].total = sumAmounts(levels)
C4_BookSortedTotals ==
  /\ StrictlySorted(orderBook.asks, FALSE) /\ TotalsAddUp(orderBook.asks)
  /\ StrictlySorted(orderBook.bids, TRUE) /\ TotalsAddUp(orderBook.bids)
\* two levels on each side after an update frame changed an amount
C4_Witness ==
  /\ op = "applyFrame" /\ arg # <<>>
  /\ Len(orderBook.asks) = 2 /\ Len(orderBook.bids) = 2
  /\ orderBook.asks[2].total = 3 /\ orderBook.bids[2].total = 3

\* C5 (as claimed): an update frame carrying amount 0 for price p removes
\* exactly the level p of that side when it is present, every other level
\* keeping its price and amount, and leaves the book unchanged when it is absent.
WithoutLevel(levels, price) == withTotals(SelectSeq(levels, LAMBDA l : l.price # price))
C5_ZeroAmountDeletes ==
  [][\A e \in Entries :
       parseFloat(e[2]) = 0 =>
         /\ (op' = "applyFrame" /\ arg' = <<[as |-> <<>>, bs |-> <<>>, a |-> <<e>>, b |-> <<>>]>>)
              => /\ orderBook'.asks = WithoutLevel(orderBook.asks, parseFloat(e[1]))
                 /\ orderBook'.bids = orderBook.bids
         /\ (op' = "applyFrame" /\ arg' = <<[as |-> <<>>, bs |-> <<>>, a |-> <<>>, b |-> <<e>>]>>)
              => /\ orderBook'.bids = WithoutLevel(orderBook.bids, parseFloat(e[1]))
                 /\ orderBook'.asks = orderBook.asks]_vars

\* C2 (as claimed): when the transport of an automatic reconnect attempt opens,
\* the frames resent are exactly one subscribe per key that was subscribed at
\* the exchange before the drop, acknowledged or not, and nothing else.
C2_ReplayExactlyActive ==
  [][(op' = "onopen" /\ socket.rs = "CONNECTING" /\ socket.kind = "reconnect")
       => /\ SubscribeKeys(tx') = upstream
          /\ Len(tx') = Cardinality(upstream)]_vars

\* C6 (as claimed): a connect() caller waiting for the attempt in flight never
\* opens a transport; its promise resolves when the attempt opened and is
\* rejected when the attempt failed.
C6_WaiterNeverOpens ==
  [][op' = "checkConnection"
       => /\ socket'.rs # "CONNECTING"
          /\ (socket.rs = "OPEN" => \E k \in Kinds : settle' = <<<<k, "resolved">>>>)
          /\ (socket.rs # "OPEN" => \E k \in Kinds : settle' = <<<<k, "rejected">>>>)]_vars

\* C6 (amended): connect() called while the socket is CONNECTING opens no
\* transport and settles nothing, it only registers a waiter; a waiter's poll
\* that finds the socket OPEN resolves its promise and opens nothing; a poll
\* that finds the socket absent or CLOSED starts one new connect attempt for
\* that caller instead of rejecting.
C6_WaiterRetries ==
  [][/\ (op' = "connect" /\ socket.rs = "CONNECTING")
          => /\ socket' = socket /\ orphans' = orphans /\ settle' = <<>>
             /\ waiters' = [waiters EXCEPT !["user"] = @ + 1]
     /\ (op' = "reconnectTimer" /\ socket.rs = "CONNECTING")
          => /\ socket' = socket /\ orphans' = orphans /\ settle' = <<>>
             /\ waiters' = [waiters EXCEPT !["reconnect"] = @ + 1]
     /\ (op' = "checkConnection" /\ socket.rs = "OPEN")
          => /\ socket' = socket /\ orphans' = orphans
             /\ \E k \in Kinds : /\ settle' = <<<<k, "resolved">>>>
                                 /\ waiters' = [waiters EXCEPT ![k] = @ - 1]
     /\ (op' = "checkConnection" /\ socket.rs # "OPEN")
          => /\ socket.rs \in {"NULL", "CLOSED"}
             /\ settle' = <<>>
             /\ socket'.rs = "CONNECTING"
             /\ waiters' = [waiters EXCEPT ![socket'.kind] = @ - 1]]_vars
\* a waiter's poll found the socket OPEN and resolved while another caller still waits
C6_Witness ==
  /\ op = "checkConnection" /\ settle = <<<<"user", "resolved">>>>
  /\ socket.rs = "OPEN" /\ waiters["reconnect"] = 1

\* C7 (as claimed): when the transport of a connect attempt closes before its
\* open event, the promise of that attempt is rejected.
C7_FailedAttemptRejects ==
  [][(op' = "onclose" /\ socket.rs = "CONNECTING")
       => <<socket.kind, "rejected">> \in Range(settle')]_vars

\* C8 (as claimed): when an automatic reconnect attempt fails, the state becomes
\* Error only once all 5 attempts since the last open are used up; before that
\* another attempt is scheduled.
C8_ErrorOnlyWhenExhausted ==
  (connectionState = "error" /\ <<"reconnect", "rejected">> \in Range(settle))
    => reconnectAttempts = maxReconnectAttempts

\* C9: after disconnect() no heartbeat and no reconnect timer is pending, the
\* binding table is empty and this.socket is null; and the close event of a
\* socket the service dropped never arms the reconnect timer nor counts an attempt.
C9_DisconnectTearsDown ==
  [][/\ op' = "disconnect"
          => /\ ~heartbeatInterval' /\ ~reconnectTimerPending'
             /\ reconnectTimeoutId' = "null"
             /\ subscriptions' = <<>> /\ socket' = NULL
     /\ op' = "orphanClose"
          => /\ reconnectTimerPending' = reconnectTimerPending
             /\ reconnectAttempts' = reconnectAttempts
             /\ connectionState' # "reconnecting" \/ connectionState = "reconnecting"]_vars
\* the socket that disconnect() dropped has closed while the state still said connected
C9_Witness ==
  /\ op = "orphanClose" /\ socket = NULL /\ subscriptions = <<>>
  /\ ~reconnectTimerPending /\ connectionState = "connected"

\* C10: send() transmits nothing and returns false when this.socket is null or
\* not OPEN, otherwise transmits the frame once and returns true; either way
\* the connection state, the bindings, the sockets and the timers are untouched.
C10_SendFailsClosed ==
  [][op' \in {"send", "heartbeat"}
       => /\ IF socket # NULL /\ socket.rs = "OPEN"
             THEN tx' = <<PingMsg>> /\ ret' = "true"
             ELSE tx' = <<>> /\ ret' = "false"
          /\ UNCHANGED svcVars]_vars
\* send() was refused on a socket that is closing
C10_Witness == op = "send" /\ ret = "false" /\ tx = <<>> /\ socket.rs = "CLOSING"

\* the key has no record in any of the three maps of the manager
NoRecord(k) ==
  /\ ~Has(activeSubscriptions, k) /\ ~Has(subscriptionCounts, k) /\ ~Has(lastUpdateTime, k)

\* C11: SubscriptionManager.subscribe for a key without a record, called while
\* the socket is absent or not OPEN, returns false, sends nothing and leaves no
\* record of the key in activeSubscriptions, subscriptionCounts or
\* lastUpdateTime; a subscribe for a key without a record made while the socket
\* is OPEN sends the upstream subscribe of the key.
C11_FailedSubscribeRollsBack ==
  [][\A k \in MuxKeys, cb \in Callbacks :
       (op' = "mgrSubscribe" /\ arg' = <<k, cb>> /\ ~Has(activeSubscriptions, k))
         => IF socket.rs = "OPEN"
            THEN /\ ret' = "true" /\ Len(tx') = 1
                 /\ tx'[1].event = "subscribe" /\ MsgKey(tx'[1]) = k
            ELSE /\ ret' = "false" /\ tx' = <<>> /\ NoRecord(k)']_vars
\* a subscribe was refused while the connect attempt was still in flight, after
\* an earlier refused subscribe of the same key
C11_Witness ==
  /\ op = "mgrSubscribe" /\ ret = "false" /\ tx = <<>> /\ socket.rs = "CONNECTING"
  /\ \E k \in MuxKeys : /\ arg = <<k, "cb1">> /\ NoRecord(k)
                        /\ Len(messageHandlers[k[1]]) = 2

\* C12 (as claimed): SubscriptionManager.unsubscribe(channel, pair, callback)
\* sends the upstream unsubscribe and deletes the record of the key only when
\* removing the callback empties the callback set; when a callback is still
\* registered after the call, also when the callback passed was never
\* registered, nothing is sent and the record stays with the remaining callbacks.
C12_TeardownOnlyWhenEmpty ==
  [][\A k \in MuxKeys, cb \in Callbacks :
       (/\ op' = "mgrUnsubscribe" /\ arg' = <<k, cb>>
        /\ Has(activeSubscriptions, k) /\ Callbacks_of(k) \ {cb} # {})
         => /\ tx' = <<>>
            /\ Has(activeSubscriptions', k)
            /\ Range(activeSubscriptions'[k]) = Callbacks_of(k) \ {cb}]_vars

\* C13 (as claimed): in every reachable state, for every key with a record,
\* the reference count in subscriptionCounts equals the size of the callback
\* set in activeSubscriptions (so subscribing a callback twice changes neither).
C13_CountEqualsSetSize ==
  \A k \in MuxKeys :
    Has(activeSubscriptions, k)
      => /\ Has(subscriptionCounts, k)
         /\ subscriptionCounts[k] = Cardinality(Callbacks_of(k))

\* C14: after unsubscribe(channel, pair, cb) has returned cb is not in the
\* callback set of the key; a callback enters the set of a key only by a
\* subscribe of that callback for that key; and callbacks are invoked only by
\* the throttle timer, which invokes only callbacks that are in the set of the
\* key when it fires. So cb is not invoked between its unsubscribe and its next
\* subscribe, also by a timer that was armed before the unsubscribe.
C14_NoDeliveryAfterUnsubscribe ==
  [][\A k \in MuxKeys, cb \in Callbacks :
       /\ (op' = "mgrUnsubscribe" /\ arg' = <<k, cb>>)
            => /\ cb \notin Range(Get(activeSubscriptions', k, <<>>))
               /\ delivered' = <<>>
       /\ (cb \in Range(Get(activeSubscriptions', k, <<>>)) /\ cb \notin Callbacks_of(k))
            => (op' = "mgrSubscribe" /\ arg' = <<k, cb>>)
       /\ (\E i \in 1..Len(delivered') : delivered'[i][1] = k /\ delivered'[i][2] = cb)
            => (op' = "throttleTimer" /\ arg' = <<k>> /\ cb \in Callbacks_of(k))]_vars
\* cb1 has unsubscribed while the timer of the key was armed with a payload in
\* the stash and cb2 is still subscribed: the timer is due and will fire
C14_Witness ==
  /\ op = "mgrUnsubscribe"
  /\ \E k \in MuxKeys : /\ arg = <<k, "cb1">>
                        /\ Has(throttleTimers, k) /\ Has(pendingUpdates, k)
                        /\ now >= throttleTimers[k]
                        /\ Get(activeSubscriptions, k, <<>>) = <<"cb2">>

\* the update frames whose entries all carry a non-zero amount
NonZeroUpdates ==
  {f \in Updates : \A e \in Range(f.a) \cup Range(f.b) : parseFloat(e[2]) # 0}
\* the book after the consumer applied an update frame to the book `book`
Applied(book, f) == mergeOrderBook(book, formatOrderBookData(f))

\* C15: from every book the consumer can hold, applying an update frame that
\* carries only non-zero amounts twice in succession yields the same book
\* (levels, order and totals) as applying it once.
C15_DeltaIdempotent ==
  \A f \in NonZeroUpdates :
    Applied(Applied(orderBook, f), f) = Applied(orderBook, f)
\* an update that changed the amount of a level of a two-level side has just
\* been applied, and applying it once more gives the same book
C15_Witness ==
  /\ op = "applyFrame" /\ arg # <<>> /\ arg[1] \in NonZeroUpdates
  /\ Len(orderBook.asks) = 2 /\ orderBook.asks[1].amount = 2 /\ orderBook.asks[2].total = 3
  /\ arg[1].a = <<<<"100.0", "2">>>>
  /\ Applied(orderBook, arg[1]) = orderBook

\* the asset name Kraken uses
alias(asset) == IF asset = "BTC" THEN "XBT" ELSE asset

\* C16: formatPairForKraken(pair) returns the wsname of the table entry under
\* the key base+quote when the table has such an entry with a (non-empty)
\* wsname, whatever the fallback would give, and alias(base) + '/' +
\* alias(quote) otherwise, alias mapping BTC to XBT and every other asset to itself.
C16_TableBeforeFallback ==
  op = "formatPairForKraken" =>
    LET pair == arg[1]
        result == arg[2]
        key == pair.baseAsset \o pair.quoteAsset
        fallback == alias(pair.baseAsset) \o "/" \o alias(pair.quoteAsset)
    IN IF key \in DOMAIN result /\ result[key].present
          /\ result[key].hasWsname /\ result[key].wsname # ""
       THEN ret = result[key].wsname
       ELSE ret = fallback
\* LTC/USD was formatted against a table whose entry LTCUSD has a wsname that
\* differs from the fallback LTC/USD
C16_Witness ==
  /\ op = "formatPairForKraken" /\ ret = "XLTC/ZUSD"
  /\ arg[1] = [baseAsset |-> "LTC", quoteAsset |-> "USD"]
  /\ arg[2]["BTCUSD"] = NoEntry

\* the transports the service created that are CONNECTING or OPEN
Live(rec) == rec.rs \in {"CONNECTING", "OPEN"}
RECURSIVE LiveOrphans(_)
LiveOrphans(b) ==
  IF DOMAIN b = {} THEN 0
  ELSE LET o == CHOOSE x \in DOMAIN b : TRUE
       IN (IF Live(o) THEN b[o] ELSE 0) + LiveOrphans(Del(b, o))

\* C17: under every interleaving of connect(), disconnect(), forceReconnect(),
\* reconnect timers, connection timeouts, waiter polls and socket open/close
\* events, at most one transport the service created is CONNECTING or OPEN:
\* every transport the service no longer references is CLOSING or CLOSED.
C17_OneLiveTransport ==
  (IF Live(socket) THEN 1 ELSE 0) + LiveOrphans(orphans) <= 1
\* forceReconnect() replaced an open transport: the old one is still closing
\* while the new one is connecting
C17_Witness ==
  /\ op = "forceReconnect" /\ socket.rs = "CONNECTING"
  /\ \E o \in DOMAIN orphans : o.rs = "CLOSING"

\* the interval of a key: min(baseThrottleInterval * subscriberCount, maxThrottleInterval)
Interval(k) == Min(baseThrottleInterval * subscriptionCounts[k], maxThrottleInterval)
\* a data frame of key k arriving now is routed to the handler of k, which has
\* callbacks to serve, finds no timer and the interval since the last delivery over
Bound(k) == getChannelInfoById(subscriptions, chanId(k)) = k
OpensWindow(k) ==
  /\ Bound(k) /\ Callbacks_of(k) # {}
  /\ ~Has(throttleTimers, k)
  /\ now - lastUpdateTime[k] >= Interval(k)
\* the deliveries of payload p to the callbacks of k, in the order of the set
Deliveries(k, p) == [i \in 1..Len(activeSubscriptions[k]) |-> <<k, activeSubscriptions[k][i], p>>]

\* C18 (as claimed): an event arriving for a key with no timer active and the
\* interval since the last delivery over is delivered to the callbacks in the
\* step of its arrival, and the delivery time is recorded.
C18_DeliversImmediately ==
  [][\A k \in MuxKeys, p \in Payloads :
       (op' = "handleMessage" /\ arg' = <<k, p>> /\ OpensWindow(k))
         => /\ delivered' = Deliveries(k, p)
            /\ lastUpdateTime'[k] = now]_vars

\* C18 (amended): an event arriving for a key with no timer active and the
\* interval since the last delivery over is not delivered in the step of its
\* arrival: it is stashed and a timer is armed for one full interval, the
\* delivery time staying as it was; when the timer fires the stashed payload
\* is delivered to the callbacks the key has then, the delivery time is
\* recorded and the timer and the stash are cleared.
C18_DeliversAfterInterval ==
  [][\A k \in MuxKeys :
       /\ \A p \in Payloads :
            (op' = "handleMessage" /\ arg' = <<k, p>> /\ OpensWindow(k))
              => /\ delivered' = <<>>
                 /\ lastUpdateTime' = lastUpdateTime
                 /\ Has(pendingUpdates', k) /\ pendingUpdates'[k] = p
                 /\ Has(throttleTimers', k) /\ throttleTimers'[k] = now + Interval(k)
       /\ (op' = "throttleTimer" /\ arg' = <<k>>)
            => /\ Has(pendingUpdates, k) /\ Has(activeSubscriptions, k)
               /\ delivered' = Deliveries(k, pendingUpdates[k])
               /\ lastUpdateTime'[k] = now
               /\ ~Has(throttleTimers', k) /\ ~Has(pendingUpdates', k)]_vars
\* the timer an event armed has fired and delivered the stashed payload to both
\* callbacks of the key, recording the time of the delivery
C18_Witness ==
  /\ op = "throttleTimer" /\ Len(delivered) = 2
  /\ \E k \in MuxKeys : /\ arg = <<k>> /\ delivered[1] = <<k, "cb1", 2>>
                        /\ delivered[2] = <<k, "cb2", 2>>
                        /\ lastUpdateTime[k] = now /\ now = MaxNow

\* the timer of the key, when one is armed, is due within the time modelled
TimerInTime(k) == Has(throttleTimers, k) => throttleTimers[k] <= MaxNow

\* C19 (as claimed): a payload stashed for a key, also one that arrived within
\* the interval after a delivery with no timer running, is eventually taken out
\* of the stash by a delivery (itself or a newer payload that replaced it) as
\* long as the key keeps a callback, even if no further event arrives.
C19_StashEventuallyDelivered ==
  \A k \in MuxKeys :
    (Has(pendingUpdates, k) /\ Callbacks_of(k) # {} /\ TimerInTime(k))
      ~> (~Has(pendingUpdates, k) \/ Callbacks_of(k) = {})

\* C20, the configuration: the base interval is 100 and the maximum 500 until a
\* setter is called, and whatever the setters are given the base is at least 50
\* and the maximum at least 100.
ThrottleConfigured ==
  /\ op = "init" => (baseThrottleInterval = 100 /\ maxThrottleInterval = 500)
  /\ baseThrottleInterval >= 50
  /\ maxThrottleInterval >= 100
\* C20, the steps: base and maximum change only in their setters; the delay a
\* handler gives the timer of a key is baseThrottleInterval * subscriberCount
\* when that is at most maxThrottleInterval and maxThrottleInterval otherwise,
\* so never more than the maximum, and the timer is armed no earlier than one
\* such interval after the last delivery; an armed timer keeps its deadline and
\* fires no earlier than it; callbacks of a key are invoked only when its timer
\* fires; time never runs backwards.
ThrottleSteps ==
  /\ baseThrottleInterval' # baseThrottleInterval => op' = "setBaseThrottleInterval"
  /\ maxThrottleInterval' # maxThrottleInterval => op' = "setMaxThrottleInterval"
  /\ now' >= now
  /\ \A k \in MuxKeys :
       /\ (~Has(throttleTimers, k) /\ Has(throttleTimers', k))
            => /\ op' = "handleMessage" /\ Has(subscriptionCounts, k)
               /\ LET used == throttleTimers'[k] - now
                      scaled == baseThrottleInterval * subscriptionCounts[k]
                  IN /\ used = IF scaled <= maxThrottleInterval THEN scaled
                               ELSE maxThrottleInterval
                     /\ used <= maxThrottleInterval
                     /\ now - lastUpdateTime[k] >= used
       /\ (Has(throttleTimers, k) /\ Has(throttleTimers', k))
            => throttleTimers'[k] = throttleTimers[k]
       /\ (\E i \in 1..Len(delivered') : delivered'[i][1] = k)
            => /\ op' = "throttleTimer" /\ arg' = <<k>>
               /\ Has(throttleTimers, k) /\ now >= throttleTimers[k]
               /\ lastUpdateTime'[k] = now

\* C20: the interval of a key is min(baseThrottleInterval * subscriberCount,
\* maxThrottleInterval), with defaults 100 and 500 and floors 50 and 100 under
\* the setters; a delivery for a key is made by the timer its handler armed
\* after the previous delivery, and not before the interval computed at the
\* arming has passed since the arming, so two consecutive deliveries of a key
\* are at least that interval apart.
C20_IntervalScaledAndCapped == []ThrottleConfigured /\ [][ThrottleSteps]_vars
\* a second delivery was scheduled for a key with two subscribers after the
\* setters had put the base at 200 and the maximum at its floor 100: the timer
\* is armed for the capped interval
C20_Witness ==
  /\ op = "handleMessage"
  /\ baseThrottleInterval = 200 /\ maxThrottleInterval = 100
  /\ \E k \in MuxKeys : /\ Has(throttleTimers, k) /\ throttleTimers[k] = now + 100
                        /\ subscriptionCounts[k] = 2
                        /\ lastUpdateTime[k] > 0

\* C21: when the throttle timer of a key fires and some of the callbacks
\* throw, every callback in the set of the key at that time is invoked once
\* with the stashed payload, in the order of the set, and the timer is
\* cleared, the stash is cleared and the delivery time is set exactly as when
\* no callback throws.
C21_ThrowingCallbackIsolated ==
  [][\A k \in MuxKeys, throwers \in SUBSET Callbacks :
       (op' = "throttleTimer" /\ arg' = <<k, throwers>> /\ Has(pendingUpdates, k))
         => /\ delivered' = [i \in 1..Len(Get(activeSubscriptions, k, <<>>)) |->
                               <<k, activeSubscriptions[k][i], pendingUpdates[k]>>]
            /\ ~Has(throttleTimers', k) /\ ~Has(pendingUpdates', k)
            /\ lastUpdateTime'[k] = now
            /\ activeSubscriptions' = activeSubscriptions
            /\ subscriptionCounts' = subscriptionCounts]_vars
\* the first of two callbacks threw and the second was still invoked with the payload
C21_Witness ==
  /\ op = "throttleTimer" /\ Len(delivered) = 2
  /\ \E k \in MuxKeys : /\ arg = <<k, {"cb1"}>>
                        /\ delivered = <<<<k, "cb1", 2>>, <<k, "cb2", 2>>>>
                        /\ lastUpdateTime[k] = now
                        /\ ~Has(throttleTimers, k) /\ ~Has(pendingUpdates, k)

\* the binding table as a set of <<key, channelID>> pairs
Bindings(subs) == {<<subs[i].key, subs[i].id>> : i \in 1..Len(subs)}

\* C22: a subscriptionStatus frame with status "subscribed" binds its channelID
\* to the key <<name, pair>>, one with status "unsubscribed" removes the binding
\* of its key and of no other key, and one with any other status ("error",
\* "pending") leaves the binding table as it was
C22_StatusFrameBinds ==
  [][(op' = "onmessage" /\ arg'[1].event = "subscriptionStatus") =>
       LET f == arg'[1]
           others == {b \in Bindings(subscriptions) : b[1] # <<f.name, f.pair>>}
       IN CASE f.status = "subscribed" ->
                 Bindings(subscriptions') = others \cup {<<<<f.name, f.pair>>, f.channelID>>}
            [] f.status = "unsubscribed" -> Bindings(subscriptions') = others
            [] OTHER -> subscriptions' = subscriptions]_vars

\* an "unsubscribed" frame has removed one binding and another key is still bound
C22_Witness ==
  /\ op = "onmessage" /\ arg[1].event = "subscriptionStatus" /\ arg[1].status = "unsubscribed"
  /\ Bindings(subscriptions) # {}
  /\ \A b \in Bindings(subscriptions) : b[1] # <<arg[1].name, arg[1].pair>>

\* what the frame leaves alone: the connection state, the attempt counter, the
\* transports and the timers of the connection service
ConnectionKept ==
  UNCHANGED <<socket, orphans, connectionState, reconnectAttempts, reconnectTimeoutId,
              reconnectTimerPending, heartbeatInterval, waiters>>
\* frames that reach no handler: text that is not JSON, heartbeat and pong
Inert(f) == f.type = "text" \/ f.event \in {"heartbeat", "pong"}
FrameContained ==
  /\ ret' # "thrown"
  /\ ConnectionKept
  /\ Inert(arg'[1]) => (delivered' = <<>> /\ subscriptions' = subscriptions)

\* C23 as stated: processing an inbound frame raises no exception, changes neither
\* the connection state nor the attempt counter nor any timer, the throttle
\* timers of the SubscriptionManager included, and an inert frame invokes no
\* handler and leaves the binding table unchanged
C23_FrameChangesNoTimer ==
  [][op' = "onmessage" => (FrameContained /\ throttleTimers' = throttleTimers)]_vars

\* C23: processing an inbound frame (text that is not JSON, array of any arity,
\* heartbeat, pong, unknown object, data frame whose handler throws) raises no
\* exception to the transport callback and changes neither the connection
\* state, the attempt counter nor a timer of the connection service; text,
\* heartbeat and pong frames invoke no handler and leave the binding table
\* unchanged. A data frame may arm the throttle timer of the key it is routed to
C23_FrameContained == [][op' = "onmessage" => FrameContained]_vars

\* a data frame was routed to a handler that threw, and to a second handler
\* after it
C23_Witness ==
  /\ op = "onmessage" /\ arg[1].type = "array" /\ arg[2] = {1}
  /\ \E i \in 1..Len(delivered) : delivered[i][3] = 1 /\ i < Len(delivered)

\* the calls of the handlers of a list, in order, with a message tagged tag
Invocations(handlers, tag) ==
  [i \in 1..Len(handlers) |-> <<<<handlers[i].channel, tag>>, "handler", handlers[i].id>>]
\* the keys the binding table binds to the channel id of frame f
BoundTo(f) == {b[1] : b \in {c \in Bindings(subscriptions) : c[2] = f.channelID}}
\* a data frame with a bound id goes to the handlers of the bound channel, tagged
\* with the bound pair, and one with an unbound id and no inline name to nobody
RoutedWhenBound(f) ==
  BoundTo(f) # {} =>
    \E k \in BoundTo(f) : delivered' = Invocations(messageHandlers[k[1]], k[2])
DroppedWhenNameless(f) == (BoundTo(f) = {} /\ f.name = "") => delivered' = <<>>

\* C24 as stated: a data frame with an unbound id and an inline channel name is
\* routed to the handlers that receive it once its id is bound, those of the
\* key's channel tagged with the key's pair
C24_UnboundRoutedAsBound ==
  [][(op' = "onmessage" /\ arg'[1].type = "array") =>
       LET f == arg'[1]
       IN /\ RoutedWhenBound(f)
          /\ DroppedWhenNameless(f)
          /\ (BoundTo(f) = {} /\ f.name # "") =>
               \A k \in RouteKeys : chanId(k) = f.channelID =>
                  delivered' = Invocations(messageHandlers[k[1]], k[2])]_vars

\* C24: a data frame whose channel id is bound is routed to the handlers of the
\* bound channel tagged with the bound pair; one whose id is unbound is routed
\* to the handlers registered under its inline channel name, tagged with its
\* inline pair, and to nobody when no handler is registered under that name;
\* one with an unbound id and no inline channel name is dropped
C24_RoutedByBindingOrInline ==
  [][(op' = "onmessage" /\ arg'[1].type = "array") =>
       LET f == arg'[1]
       IN /\ RoutedWhenBound(f)
          /\ DroppedWhenNameless(f)
          /\ (BoundTo(f) = {} /\ f.name # "") =>
               delivered' = IF f.name \in DOMAIN messageHandlers
                            THEN Invocations(messageHandlers[f.name], f.pair) ELSE <<>>]_vars

\* a frame with an unbound id was routed by its inline fields to two handlers
C24_Witness ==
  /\ op = "onmessage" /\ arg[1].type = "array" /\ arg[1].name = "ticker"
  /\ \A b \in Bindings(subscriptions) : b[2] # arg[1].channelID
  /\ Len(delivered) = 2 /\ delivered[1][1] = <<"ticker", arg[1].pair>>

\* C25: a callback registered in the SubscriptionManager for key <<channel,
\* pair>> only sees events of that pair: the payload stashed for a key and every
\* payload delivered to a callback of a key is that of an event of the key's
\* instrument, never that of another pair of the same channel
C25_OnlyOwnPair ==
  /\ \A k \in DOMAIN pendingUpdates : k \in RouteKeys => pendingUpdates[k] = chanId(k)
  /\ \A i \in 1..Len(delivered) :
       (delivered[i][2] # "handler" /\ delivered[i][1] \in RouteKeys) =>
          delivered[i][3] = chanId(delivered[i][1])

\* an event of one pair went through the handlers of both keys of the channel
\* while the other key had callbacks, and nothing was stashed for that key
C25_Witness ==
  /\ op = "onmessage" /\ arg[1].type = "array" /\ Len(delivered) = 2
  /\ \E k \in RouteKeys : /\ Has(activeSubscriptions, k) /\ chanId(k) # arg[1].payload
                          /\ ~Has(pendingUpdates, k)
                          /\ \E j \in RouteKeys : Has(pendingUpdates, j)

\* the parameter a subscribe message of channel name carries by default
DefaultParam(name) ==
  CASE name = "book" -> DefaultDepth [] name = "ohlc" -> DefaultInterval [] OTHER -> NoParam

\* C26: the messages the reconnect replay sends are subscribe messages that
\* carry the channel, the pair and the default parameter: interval 1 for an
\* ohlc key and the service's default depth for a book key, whatever interval
\* or depth the key was subscribed with
C26_ReplayUsesDefaults ==
  [][op' = "onopen" =>
       \A i \in 1..Len(tx') : /\ tx'[i].event = "subscribe"
                              /\ tx'[i].param = DefaultParam(tx'[i].name)]_vars

\* a reconnect has replayed a book key and an ohlc key, both subscribed with
\* other parameters
C26_Witness ==
  /\ op = "onopen"
  /\ {tx[i].name : i \in 1..Len(tx)} = {"book", "ohlc"}

\* the steps in which the continuation of a reconnect attempt can run: the open
\* event, the poll of a waiting attempt, and connect() finding the socket open
ReplaySteps == {"onopen", "checkConnection", "reconnectTimer"}
\* how many reconnect attempts the step settled as resolved
ReconnectsResolved(s) == Cardinality({i \in 1..Len(s) : s[i] = <<"reconnect", "resolved">>})

LiveSocket(rec) == rec.rs \in {"CONNECTING", "OPEN", "CLOSING"}

\* C28: forceReconnect(), in whatever state it is called, leaves the attempt
\* counter at 0 and no reconnect timer pending, leaves the old transport, when
\* it was live, closing with its onclose handler removed, so that its close
\* schedules no reconnect, and starts one new connect attempt: this.socket is a
\* new CONNECTING transport of the caller
C28_ForceReconnectRestarts ==
  [][op' = "forceReconnect" =>
       /\ reconnectAttempts' = 0
       /\ ~reconnectTimerPending' /\ reconnectTimeoutId' = "null"
       /\ socket' = NewSock("user")
       /\ connectionState' = "connecting"
       /\ LiveSocket(socket) => \E o \in DOMAIN orphans' : o.rs = "CLOSING" /\ ~o.onclose
       /\ \A o \in DOMAIN orphans' : ~o.onclose
       /\ settle' = <<>> /\ tx' = <<>>]_vars

\* forceReconnect() was called while a transport was live: the old transport is
\* closing without a close handler and a new attempt is in flight
C28_Witness ==
  /\ op = "forceReconnect" /\ socket.rs = "CONNECTING" /\ reconnectAttempts = 0
  /\ \E o \in DOMAIN orphans : o.rs = "CLOSING" /\ ~o.onclose

\* snapshot frames that carry both sides and no zero volume
FullSnapshots ==
  {f \in Snapshots : /\ f.as # <<>> /\ f.bs # <<>>
                     /\ \A e \in Range(f.as) \cup Range(f.bs) : parseFloat(e[2]) # 0}
\* the levels of a side as a set of <<price, amount>>
Levels(levels) == {<<levels[i].price, levels[i].amount>> : i \in 1..Len(levels)}

\* C29 (as claimed): from every book the consumer can hold, applying a snapshot
\* frame leaves on each side exactly the levels of the snapshot: a level of the
\* book that the snapshot does not carry is gone.
C29_SnapshotReplacesBook ==
  \A f \in FullSnapshots :
    /\ Levels(Applied(orderBook, f).asks) = Levels(formatOrderBookData(f).asks)
    /\ Levels(Applied(orderBook, f).bids) = Levels(formatOrderBookData(f).bids)

\* C30: the spread is computed exactly when both sides of the book are
\* non-empty, and is then the price of asks[0], the lowest ask, minus the price
\* of bids[0], the highest bid; when a side is empty no spread is produced
C30_SpreadOfBestLevels ==
  LET asks == orderBook.asks
      bids == orderBook.bids
      s == spreadData(asks, bids)
  IN /\ (s # <<>>) <=> (asks # <<>> /\ bids # <<>>)
     /\ s # <<>> =>
          /\ s[1].spread.num = asks[1].price - bids[1].price
          /\ \A i \in 1..Len(asks) : asks[1].price <= asks[i].price
          /\ \A i \in 1..Len(bids) : bids[1].price >= bids[i].price

\* a book with asks at 100 and 101 and the bid at 100: the spread is that of
\* the lowest ask, 0
C30_Witness ==
  /\ op = "applyFrame"
  /\ Len(orderBook.asks) = 2 /\ Len(orderBook.bids) = 1 /\ orderBook.bids[1].price = 100
  /\ spreadData(orderBook.asks, orderBook.bids) # <<>>
  /\ spreadData(orderBook.asks, orderBook.bids)[1].spread.num = 0

\* the candle list is sorted strictly ascending by open time
CandlesSorted == \A i \in 1..Len(candles) - 1 : candles[i].time < candles[i + 1].time
\* a live update replaces the candle of its open time in place, or adds one
CandleMerged ==
  op' = "handleOHLCUpdate" =>
    LET u == [time |-> arg'[1] * 1000, close |-> arg'[2]]
        idx == {i \in 1..Len(candles) : candles[i].time = u.time}
    IN IF idx # {}
       THEN /\ Len(candles') = Len(candles)
            /\ \A i \in 1..Len(candles) : candles'[i] = IF i \in idx THEN u ELSE candles[i]
       ELSE /\ Len(candles') = Len(candles) + 1
            /\ {candles'[i] : i \in 1..Len(candles')} = {candles[i] : i \in 1..Len(candles)} \cup {u}

\* C31: after any sequence of live candle updates the candle list is sorted
\* strictly ascending by open time, no two candles sharing an open time: an
\* update whose open time equals that of a candle of the list replaces that
\* candle in place and leaves the length unchanged, any other update makes the
\* list grow by exactly one
C31_CandlesMergedByTime == []CandlesSorted /\ [][CandleMerged]_vars

\* an update for the middle open time arrived last and sits between the others
C31_Witness ==
  /\ op = "handleOHLCUpdate" /\ arg[1] = 2
  /\ Len(candles) = 3 /\ candles[2].time = 2000 /\ candles[2].close = arg[2]


\* C32: marking an order-book consumer not-visible never sends an upstream
\* unsubscribe for its (book, pair) key and never deletes the key's record in
\* the SubscriptionManager: the shared subscription stays alive while hidden
C32_HiddenKeepsSubscription ==
  [][op' = "setNotVisible" =>
       /\ Has(activeSubscriptions', arg'[1])
       /\ \A i \in 1..Len(tx') : ~(tx'[i].event = "unsubscribe" /\ MsgKey(tx'[i]) = arg'[1])]_vars


\* the delays (ms) before the automatic reconnect attempts 1..5
ExpectedDelays == <<2000, 3000, 4500, 6750, 10125>>

\* C33: the delay before automatic reconnect attempt k (k = 1..5, counted since
\* the last successful open) is 2000 ms * 1.5^(k-1), that is 2000, 3000, 4500,
\* 6750, 10125 ms, strictly increasing with k; the attempt counter returns to 0
\* on every successful open, so the next drop starts again at 2000 ms
C33_BackoffDelays ==
  [][/\ (delay' # 0 \/ reconnectAttempts' > reconnectAttempts) =>
          /\ reconnectTimerPending'
          /\ reconnectAttempts' = reconnectAttempts + 1
          /\ reconnectAttempts' \in 1..maxReconnectAttempts
          /\ delay' = ExpectedDelays[reconnectAttempts']
          /\ reconnectAttempts > 0 => delay' > ExpectedDelays[reconnectAttempts]
     /\ op' = "onopen" => reconnectAttempts' = 0
     /\ (reconnectAttempts = 0 /\ delay' # 0) => delay' = reconnectDelay]_vars

\* the timer of the fifth attempt in a row has been armed
C33_Witness == delay = 10125 /\ reconnectAttempts = maxReconnectAttempts /\ reconnectTimerPending


\* C34: after disconnect() returns no timer of the core remains pending: not
\* the heartbeat, not the reconnect timer, not any per-key throttle timer of the
\* subscription layer, and not the connection timeout of an attempt in flight
C34_DisconnectCancelsTimers ==
  [][op' = "disconnect" =>
       /\ ~heartbeatInterval'
       /\ ~reconnectTimerPending'
       /\ DOMAIN throttleTimers' = {}
       /\ \A o \in DOMAIN orphans' : ~o.timeout]_vars


\* C35: in every reachable state getConnectionState() returns Connected only
\* if the service holds a socket in the OPEN state; in particular the state
\* reported after disconnect() is not Connected
C35_ConnectedMeansOpen ==
  /\ connectionState = "connected" => (socket # NULL /\ socket.rs = "OPEN")
  /\ op = "disconnect" => connectionState # "connected"


\* the connection timeout that fired belongs to an attempt whose socket the
\* service dropped: the timeout of the attempt of this.socket is as it was
StaleTimeoutFired == op' = "connectionTimeout" /\ socket'.timeout = socket.timeout

\* C36: the connection timeout armed for one connect attempt only ever affects
\* that attempt: when it fires it never closes a socket created by a later
\* attempt and never sets the state to Error while a later attempt is
\* connecting or open, and it is cancelled when disconnect() or
\* forceReconnect() abandons its attempt
C36_TimeoutOfItsAttempt ==
  [][/\ StaleTimeoutFired =>
          /\ socket'.rs = socket.rs
          /\ socket.rs \in {"CONNECTING", "OPEN"} => connectionState' = connectionState
          /\ settle' = <<>>
     /\ op' \in {"disconnect", "forceReconnect"} => \A o \in DOMAIN orphans' : ~o.timeout]_vars


\* the channel handlers the manager has registered with the service for a key
HandlersOf(k) == {i \in 1..Len(messageHandlers[k[1]]) : messageHandlers[k[1]][i].pair = k[2]}

\* C37: for every key, the manager has at most one channel handler registered
\* with the connection service while the key has a record, and none once the
\* record has been deleted (after the last unsubscribe or a failed subscribe),
\* so handlers do not accumulate across subscribe/unsubscribe cycles
C37_OneHandlerPerRecord ==
  \A k \in MuxKeys :
    Cardinality(HandlersOf(k)) <= (IF Has(activeSubscriptions, k) THEN 1 ELSE 0)


\* the transport opens for an attempt made by the reconnect timer, or for the
\* attempt forceReconnect() has just made
Reopened == op' = "onopen" /\ (socket.kind = "reconnect" \/ op = "forceReconnect")
\* every key with a record holding a callback is subscribed on the session
RecordsSubscribed ==
  \A k \in SvcKeys :
    (Has(activeSubscriptions, k) /\ activeSubscriptions[k] # <<>>) => k \in upstream

\* C38: whenever the connection is open again after a reconnect (automatic, or
\* via forceReconnect()), every key that has a record with at least one
\* callback in the SubscriptionManager has had a subscribe message sent on the
\* current transport
C38_ReopenResubscribes == [][Reopened => RecordsSubscribed']_vars


\* the step hands the frame stashed for key k to a callback of the key
StashDelivered(k) == \E i \in 1..Len(delivered') : delivered'[i][1] = k /\ delivered'[i][3] = pendingUpdates[k]

\* C39: for a subscribed book key the consumer's order book after a burst of
\* frames is the fold, in arrival order, of every snapshot and delta frame the
\* transport delivered for the key: no frame is skipped by the throttle, that
\* is, a frame waiting for the throttle timer of its key is handed to the
\* callbacks before the next frame of the burst takes its place
C39_NoFrameSkipped ==
  [][op' = "handleMessage" =>
       \A k \in SvcKeys :
         (Has(pendingUpdates, k) /\ Get(pendingUpdates', k, 0) # pendingUpdates[k]) => StashDelivered(k)]_vars


\* another mounted instance still has its handler registered for the key
OthersMounted(k, c) ==
  \E i \in 1..Len(messageHandlers[k[1]]) :
    messageHandlers[k[1]][i].pair = k[2] /\ messageHandlers[k[1]][i].id # c

\* C40: when two consumers use the same (channel, pair) feed through a hook
\* that subscribes directly on the connection service, the clean-up of one
\* never sends an upstream unsubscribe for that (channel, pair) while the other
\* is still mounted
C40_CleanupSparesSharedFeed ==
  [][(op' = "cleanup" /\ OthersMounted(arg'[1], arg'[2])) =>
       \A i \in 1..Len(tx') : ~(tx'[i].event = "unsubscribe" /\ MsgKey(tx'[i]) = arg'[1])]_vars

====
